---- MODULE Spec2Model ----
(***************************************************************************)
(* Model of the Pulse credential subsystem: the Encrypted Local Store     *)
(* (KeychainManager over LocalStorage), the Cipher Engine calls it makes   *)
(* and the Audit Log (SecurityAudit).                                      *)
(*                                                                         *)
(* Strings the code inspects character by character (identifiers, storage *)
(* keys, credentials, data keys and values) are tuples of one-character    *)
(* strings.  Message literals of the source are kept as atomic strings.    *)
(* Time is counted in days: Date.now() is `now`, and the 24*60*60*1000     *)
(* factor of the source is the unit.  Two calls that read the same `now`   *)
(* are calls within the same clock reading.                                *)
(*                                                                         *)
(* Every async method is cut at the awaits on which a LocalStorage call    *)
(* lands; one action is the code between two such awaits.  Two call chains *)
(* run concurrently.  LocalStorage is reliable in SpecAudit, SpecStore and *)
(* SpecStoreRace; in SpecAuditFault and SpecStoreFault a call on it may    *)
(* reject, and a read may return a text that is not the JSON expected.     *)
(***************************************************************************)
EXTENDS Integers, Sequences, FiniteSets, TLC

VARIABLES
    storage,    \* LocalStorage: storage key -> stored text
    now,        \* Date.now(), in days
    tasks,      \* per async call chain: position and locals
    returned,   \* the call that returned in the step just taken, if any
    calls,      \* number of calls started (also the source of unique ids)
    ticks,      \* number of clock advances
    faults,     \* failures the environment may still inject
    keychain,   \* the OS credential manager: <<service, account>> -> secret
    environment, \* process.env, process.platform and process.version
    lastLog,    \* history: the audit write that landed in the step just taken
    lastStored  \* history: per storage key, the last store() that wrote it or,
                \* with the empty credential, the last delete() that removed it

vars == <<storage, now, tasks, returned, calls, ticks, faults, keychain,
          environment, lastLog, lastStored>>

----------------------------------------------------------------------------
(* Bounds of the model *)

\* calls of the Encrypted Local Store started in one behaviour
MaxCalls == 3
\* the same, in the behaviours where a retrieve overlaps a store
MaxRaceCalls == 4
\* the same, in the behaviours where LocalStorage fails
MaxFaultCalls == 2
\* direct calls of SecurityAudit.log started in one behaviour
MaxLogCalls == 3
\* clock advances in one behaviour
MaxTicks == 2
\* LocalStorage failures injected in one behaviour
MaxFaults == 1
\* SecurityAudit.maxEntries (1000 in the source), scaled down
maxEntries == 2

\* the two concurrent async call chains
Tasks == {"t1", "t2"}
\* days the clock may jump in one advance
TickSteps == {1, 90}

----------------------------------------------------------------------------
(* Program constants *)

retentionDays == 90
idMaxLength == 100
minCredentialLength == 8
maskTail == 4

Prefix == <<"p", "u", "l", "s", "e", ".", "c", "r", "e", "d", "e", "n", "t", "i", "a", "l", ".">>
auditStorageKey == <<"p", "u", "l", "s", "e", ".", "s", "e", "c", "u", "r", "i", "t", "y", ".", "a", "u", "d", "i", "t", "_", "l", "o", "g">>
Stars == <<"*", "*", "*">>
masterPassword == "master-passphrase"
ALGORITHM == "aes-256-cbc"
sessionId == "session-1"

sensitiveFields ==
    { <<"p", "a", "s", "s", "w", "o", "r", "d">>,
      <<"t", "o", "k", "e", "n">>,
      <<"k", "e", "y">>,
      <<"s", "e", "c", "r", "e", "t">>,
      <<"c", "r", "e", "d", "e", "n", "t", "i", "a", "l">> }

CREDENTIAL_TYPES ==
    { [name |-> "Notion API Token",
       service |-> <<"c", "o", "m", ".", "p", "u", "l", "s", "e", ".", "r", "a", "y", "c", "a", "s", "t", ".", "n", "o", "t", "i", "o", "n", "-", "a", "p", "i">>,
       account |-> <<"a", "p", "i", "-", "t", "o", "k", "e", "n">>],
      [name |-> "Plaid Client ID",
       service |-> <<"c", "o", "m", ".", "p", "u", "l", "s", "e", ".", "r", "a", "y", "c", "a", "s", "t", ".", "p", "l", "a", "i", "d", "-", "c", "l", "i", "e", "n", "t">>,
       account |-> <<"c", "l", "i", "e", "n", "t", "-", "i", "d">>],
      [name |-> "Plaid Secret",
       service |-> <<"c", "o", "m", ".", "p", "u", "l", "s", "e", ".", "r", "a", "y", "c", "a", "s", "t", ".", "p", "l", "a", "i", "d", "-", "s", "e", "c", "r", "e", "t">>,
       account |-> <<"s", "e", "c", "r", "e", "t", "-", "k", "e", "y">>],
      [name |-> "HealthKit Access Token",
       service |-> <<"c", "o", "m", ".", "p", "u", "l", "s", "e", ".", "r", "a", "y", "c", "a", "s", "t", ".", "h", "e", "a", "l", "t", "h", "k", "i", "t">>,
       account |-> <<"a", "c", "c", "e", "s", "s", "-", "t", "o", "k", "e", "n">>],
      [name |-> "Master Encryption Key",
       service |-> <<"c", "o", "m", ".", "p", "u", "l", "s", "e", ".", "r", "a", "y", "c", "a", "s", "t", ".", "e", "n", "c", "r", "y", "p", "t", "i", "o", "n", "-", "k", "e", "y">>,
       account |-> <<"m", "a", "s", "t", "e", "r", "-", "k", "e", "y">>] }

----------------------------------------------------------------------------
(* Strings *)

LowerLetters == <<"a", "b", "c", "d", "e", "f", "g", "h", "i", "j", "k", "l", "m", "n", "o", "p", "q", "r", "s", "t", "u", "v", "w", "x", "y", "z">>
UpperLetters == <<"A", "B", "C", "D", "E", "F", "G", "H", "I", "J", "K", "L", "M", "N", "O", "P", "Q", "R", "S", "T", "U", "V", "W", "X", "Y", "Z">>
Digits == <<"0", "1", "2", "3", "4", "5", "6", "7", "8", "9">>

Range(s) == { s[i] : i \in 1..Len(s) }

\* the character class [a-z0-9._-]
SafeChars == Range(LowerLetters) \cup Range(Digits) \cup {".", "_", "-"}

\* String.prototype.toLowerCase, on the letters A-Z
LowerChar(c) ==
    IF c \in Range(UpperLetters)
    THEN LowerLetters[CHOOSE i \in 1..Len(UpperLetters) : UpperLetters[i] = c]
    ELSE c

toLowerCase(s) == [i \in 1..Len(s) |-> LowerChar(s[i])]

\* String.prototype.includes
Includes(hay, needle) ==
    \E i \in 0..(Len(hay) - Len(needle)) : SubSeq(hay, i + 1, i + Len(needle)) = needle

\* String.prototype.startsWith
StartsWith(s, p) == Len(s) >= Len(p) /\ SubSeq(s, 1, Len(p)) = p

\* value.slice(-4)
SliceLast(s, n) == IF Len(s) <= n THEN s ELSE SubSeq(s, Len(s) - n + 1, Len(s))

\* n copies of the character c
RECURSIVE Repeat(_, _)
Repeat(c, n) == IF n = 0 THEN <<>> ELSE <<c>> \o Repeat(c, n - 1)

----------------------------------------------------------------------------
(* Values passed as audit data: strings, message literals, lists of       *)
(* messages and numbers.                                                   *)

Str(s) == [t |-> "str", v |-> s]
Msg(m) == [t |-> "msg", v |-> m]
List(l) == [t |-> "list", v |-> l]
Num(n) == [t |-> "num", v |-> n]

K_service == <<"s", "e", "r", "v", "i", "c", "e">>
K_account == <<"a", "c", "c", "o", "u", "n", "t">>
K_errors == <<"e", "r", "r", "o", "r", "s">>
K_error == <<"e", "r", "r", "o", "r">>
K_type == <<"t", "y", "p", "e">>
K_action == <<"a", "c", "t", "i", "o", "n">>

----------------------------------------------------------------------------
(* JSON texts held by LocalStorage.  A text is either well-formed JSON of  *)
(* an array of audit entries or of a StoredCredential object, or it is not *)
(* what the reader expects.                                                *)

NoCredential ==
    [encrypted |-> [data |-> [sealed |-> <<>>, password |-> "", salt |-> 0, iv |-> 0],
                    iv |-> 0, salt |-> 0, algorithm |-> "none"],
     type |-> "none", createdAt |-> 0, lastAccessed |-> 0, version |-> 0]

\* JSON.stringify of the audit array
StringifyLog(entries) ==
    [wellFormed |-> TRUE, shape |-> "array", items |-> entries, nulls |-> FALSE,
     object |-> NoCredential]

\* JSON.stringify of a StoredCredential
StringifyCredential(sc) ==
    [wellFormed |-> TRUE, shape |-> "object", items |-> <<>>, nulls |-> FALSE,
     object |-> sc]

\* a text that is not JSON
GarbageText ==
    [wellFormed |-> FALSE, shape |-> "none", items |-> <<>>, nulls |-> FALSE,
     object |-> NoCredential]

\* the JSON text "[null]"
NullArrayText ==
    [wellFormed |-> TRUE, shape |-> "array", items |-> <<>>, nulls |-> TRUE,
     object |-> NoCredential]

\* JSON.parse: throws on a text that is not JSON
JSONparse(text) == [threw |-> ~text.wellFormed, value |-> text]

----------------------------------------------------------------------------
(* Cipher Engine, as the Encrypted Local Store uses it.  The ciphertext is *)
(* a sealed term: it yields its plaintext only to decrypt with the same    *)
(* password, salt and iv.                                                  *)

NoEnvelope == NoCredential.encrypted

\* what a reader of LocalStorage who lacks the master password gets out of the
\* data field of an envelope
Visible(data) == IF data.password = "" THEN data.sealed ELSE <<>>

\* a UTF-16 code unit that is half of a surrogate pair, on its own, and the
\* character U+FFFD that the utf8 encoding writes in its place
LoneSurrogate == "\\uD800"
ReplacementCharacter == "\\uFFFD"

\* the string that comes back from the bytes cipher.update(plaintext, 'utf8')
\* reads: the utf8 encoding has no bytes for a lone surrogate
utf8(str) ==
    [i \in 1..Len(str) |->
        IF str[i] = LoneSurrogate THEN ReplacementCharacter ELSE str[i]]

\* what deciphering under another key, another iv or from other bytes yields
\* when the last block happens to end in a valid padding
Garbled == <<ReplacementCharacter, "g">>

\* the key derived from the password and the salt of the envelope, and the iv
\* of the envelope, are those the data was enciphered under
Opens(encryptedData, password) ==
    /\ encryptedData.data.password = password
    /\ encryptedData.data.salt = encryptedData.salt
    /\ encryptedData.data.iv = encryptedData.iv

\* the outcomes of decipher.final: under the right key and iv the padding is
\* the one encrypt wrote; otherwise the last block is arbitrary bytes, which
\* mostly are no valid padding ("bad decrypt") and sometimes are ("padded")
FinalOutcomes(encryptedData, password) ==
    IF encryptedData = NoEnvelope \/ password = ""
          \/ encryptedData.algorithm # ALGORITHM
    THEN {"not reached"}
    ELSE IF Opens(encryptedData, password) THEN {"plaintext"}
    ELSE {"bad decrypt", "padded"}

\* encrypt that seals nothing: the data field is the plaintext
encryptUnsealed(plaintext, password, salt, iv) ==
    [success |-> TRUE,
     encrypted |-> [data |-> [sealed |-> utf8(plaintext), password |-> "",
                              salt |-> salt, iv |-> iv],
                    iv |-> iv, salt |-> salt, algorithm |-> ALGORITHM]]

encrypt(plaintext, password, salt, iv) ==
    IF plaintext = <<>> \/ password = ""
    THEN [success |-> FALSE, encrypted |-> NoEnvelope]
    ELSE [success |-> TRUE,
          encrypted |-> [data |-> [sealed |-> utf8(plaintext), password |-> password,
                                   salt |-> salt, iv |-> iv],
                         iv |-> iv, salt |-> salt, algorithm |-> ALGORITHM]]

decrypt(encryptedData, password, final) ==
    IF encryptedData = NoEnvelope \/ password = ""
    THEN [success |-> FALSE, decrypted |-> <<>>]
    ELSE IF encryptedData.algorithm # ALGORITHM
    THEN [success |-> FALSE, decrypted |-> <<>>]
    ELSE IF final = "plaintext"
    THEN [success |-> TRUE, decrypted |-> encryptedData.data.sealed]
    ELSE IF final = "padded"
    THEN [success |-> TRUE, decrypted |-> Garbled]
    ELSE [success |-> FALSE, decrypted |-> <<>>]

\* String.prototype.charCodeAt for the characters the comparison is given
charCode == ("a" :> 97) @@ ("b" :> 98) @@ ("A" :> 65)

\* the bitwise operators ^ and | on non-negative integers
RECURSIVE BitXor(_, _)
BitXor(x, y) ==
    IF x = 0 /\ y = 0 THEN 0
    ELSE (((x % 2) + (y % 2)) % 2) + 2 * BitXor(x \div 2, y \div 2)

RECURSIVE BitOr(_, _)
BitOr(x, y) ==
    IF x = 0 /\ y = 0 THEN 0
    ELSE (IF (x % 2) = 1 \/ (y % 2) = 1 THEN 1 ELSE 0)
            + 2 * BitOr(x \div 2, y \div 2)

\* the loop of secureCompare from position i (counted from 1) on
RECURSIVE CompareLoop(_, _, _, _)
CompareLoop(a, b, i, result) ==
    IF i > Len(a) THEN [result |-> result, iterations |-> i - 1]
    ELSE CompareLoop(a, b, i + 1,
                     BitOr(result, BitXor(charCode[a[i]], charCode[b[i]])))

\* a comparison that returns at the first difference
RECURSIVE FirstDifference(_, _, _)
FirstDifference(a, b, i) ==
    IF i > Len(a) THEN [result |-> 0, iterations |-> i - 1]
    ELSE IF a[i] # b[i] THEN [result |-> 1, iterations |-> i]
    ELSE FirstDifference(a, b, i + 1)

secureCompareEarlyExit(a, b) ==
    IF Len(a) # Len(b) THEN [equal |-> FALSE, iterations |-> 0]
    ELSE LET loop == FirstDifference(a, b, 1)
         IN  [equal |-> loop.result = 0, iterations |-> loop.iterations]

\* EncryptionUtils.secureCompare, with the number of iterations of its loop
secureCompare(a, b) ==
    IF Len(a) # Len(b) THEN [equal |-> FALSE, iterations |-> 0]
    ELSE LET loop == CompareLoop(a, b, 1, 0)
         IN  [equal |-> loop.result = 0, iterations |-> loop.iterations]

----------------------------------------------------------------------------
(* KeychainManager (Encrypted Local Store): pure helpers *)

isValidServiceName(service) ==
    /\ Len(service) >= 1
    /\ \A i \in 1..Len(service) : service[i] \in SafeChars
    /\ Len(service) <= idMaxLength

isValidAccountName(account) ==
    /\ Len(account) >= 1
    /\ \A i \in 1..Len(account) : account[i] \in SafeChars
    /\ Len(account) <= idMaxLength

\* validation that reports the first violated rule only
validateFirstRule(service, account, credential) ==
    LET errors ==
            IF service = <<>> \/ ~isValidServiceName(service)
            THEN <<"Invalid service name">>
            ELSE IF account = <<>> \/ ~isValidAccountName(account)
            THEN <<"Invalid account name">>
            ELSE IF credential = <<>> \/ Len(credential) < minCredentialLength
            THEN <<"Credential must be at least 8 characters">>
            ELSE <<>>
    IN  [isValid |-> Len(errors) = 0, errors |-> errors]

validateCredentialParams(service, account, credential) ==
    LET errors ==
            (IF service = <<>> \/ ~isValidServiceName(service)
             THEN <<"Invalid service name">> ELSE <<>>)
            \o (IF account = <<>> \/ ~isValidAccountName(account)
                THEN <<"Invalid account name">> ELSE <<>>)
            \o (IF credential = <<>> \/ Len(credential) < minCredentialLength
                THEN <<"Credential must be at least 8 characters">> ELSE <<>>)
    IN  [isValid |-> Len(errors) = 0, errors |-> errors]

generateStorageKey(service, account) == Prefix \o service \o <<".">> \o account

inferCredentialType(service, account) ==
    LET matches == { ct \in CREDENTIAL_TYPES :
                        Includes(ct.service, service) /\ ct.account = account }
    IN  IF matches # {} THEN (CHOOSE ct \in matches : TRUE).name
        ELSE "Generic Credential"

----------------------------------------------------------------------------
(* SecurityAudit: pure helpers *)

NoEntry ==
    [id |-> 0, timestamp |-> 0, eventType |-> "none", result |-> "none",
     data |-> <<>>, sessionId |-> "", version |-> 0]

\* the mask put in place of one sensitive value
MaskValue(value) ==
    IF value.t = "str" /\ Len(value.v) > 0
    THEN Str(Stars \o SliceLast(value.v, maskTail))
    ELSE IF value.t = "msg"
    THEN [t |-> "maskedmsg", v |-> value.v]
    ELSE Str(Stars)

IsSensitiveKey(key) ==
    \E field \in sensitiveFields : Includes(toLowerCase(key), field)

sanitizeLogData(data) ==
    [key \in DOMAIN data |->
        IF IsSensitiveKey(key) THEN MaskValue(data[key]) ELSE data[key]]

\* Array.prototype.sort with (a, b) => time(b) - time(a): stable, newest first.
\* An entry comes after the newer entries and after the entries of its own
\* time that precede it in the array.
SortNewestFirst(entries) ==
    LET place == [i \in DOMAIN entries |->
                    1 + Cardinality({ j \in DOMAIN entries :
                          \/ entries[j].timestamp > entries[i].timestamp
                          \/ /\ entries[j].timestamp = entries[i].timestamp
                             /\ j < i })]
    IN  [p \in DOMAIN entries |->
            entries[CHOOSE i \in DOMAIN entries : place[i] = p]]

\* a filter that also keeps the entries at the cutoff
FilterFromCutoff(entries, cutoff) ==
    SelectSeq(entries, LAMBDA e : e.timestamp >= cutoff)

FilterNewerThan(entries, cutoff) ==
    SelectSeq(entries, LAMBDA e : e.timestamp > cutoff)

\* retention without the slice to maxEntries
enforceRetentionPolicyNoCap(entries, nowT) ==
    FilterNewerThan(SortNewestFirst(entries), nowT - retentionDays)

\* retention without the age filter
enforceRetentionPolicyNoAge(entries, nowT) ==
    LET sorted == SortNewestFirst(entries)
    IN  SubSeq(sorted, 1, IF Len(sorted) < maxEntries THEN Len(sorted) ELSE maxEntries)

enforceRetentionPolicy(entries, nowT) ==
    LET sorted == SortNewestFirst(entries)
        trimmed == SubSeq(sorted, 1, IF Len(sorted) < maxEntries THEN Len(sorted) ELSE maxEntries)
        retentionCutoff == nowT - retentionDays
    IN  FilterNewerThan(trimmed, retentionCutoff)

\* what getAuditLog makes of the outcome of LocalStorage.getItem
EmptyLog == [items |-> <<>>, nulls |-> FALSE]

getAuditLog(read) ==
    IF read.threw \/ ~read.found THEN EmptyLog
    ELSE LET parsed == JSONparse(read.text)
         IN  IF parsed.threw THEN EmptyLog
             ELSE IF parsed.value.shape = "array"
             THEN [items |-> parsed.value.items, nulls |-> parsed.value.nulls]
             ELSE EmptyLog

\* log() without its try/catch
LogRaisesOnFailure(failed) == failed

\* whether log() lets a failure of its body escape to its caller: the body is
\* wrapped in try/catch and the catch only reports to the console
LogRaises(failed) == FALSE

----------------------------------------------------------------------------
(* Inputs of the calls *)

\* identifiers: a valid one, one with an upper-case letter, the empty one and
\* one that is one character longer than the limit
ValidId == <<"s">>
ValidAccount == <<"a">>
UpperId == <<"S">>
LongId == Repeat("x", idMaxLength + 1)

\* credentials of 8, 9 and 7 characters
Credential1 == <<"s", "3", "c", "r", "3", "t", "0", "1">>
Credential2 == <<"s", "3", "c", "r", "3", "t", "-", "0", "2">>
ShortCredential == <<"s", "3", "c", "r", "3", "t", "7">>
Credentials == { Credential1, Credential2, ShortCredential }

\* arguments of store
StoreInputs ==
    { <<ValidId, ValidAccount, Credential1>>,
      <<ValidId, ValidAccount, Credential2>>,
      <<ValidId, ValidAccount, ShortCredential>>,
      <<UpperId, <<>>, ShortCredential>>,
      <<LongId, ValidAccount, Credential1>> }

\* arguments of delete
DeleteInputs == { <<ValidId, ValidAccount>> }

\* arguments of retrieve
KeyInputs == { <<ValidId, ValidAccount>>, <<UpperId, ValidAccount>> }

\* direct calls of SecurityAudit.log
LogInputs ==
    { [eventType |-> "login_failure", result |-> "FAILED",
       data |-> (<<"p", "a", "s", "s", "w", "o", "r", "d">>
                    :> Str(<<"h", "u", "n", "t", "e", "r", "2", "-", "p", "w">>))],
      [eventType |-> "key_rotated", result |-> "SUCCESS",
       data |-> (<<"a", "p", "i", "K", "e", "y">> :> Str(<<"1", "2", "3", "4">>))
                @@ (<<"n", "o", "t", "e">> :> Str(<<"o", "k">>))],
      [eventType |-> "security_config_changed", result |-> "WARNING",
       data |-> (<<"u", "s", "e", "r", "T", "o", "k", "e", "n">> :> Num(42))
                @@ (<<"s", "e", "c", "r", "e", "t">> :> Str(<<>>))] }

----------------------------------------------------------------------------
(* Records *)

NoStore ==
    [cid |-> 0, credential |-> <<>>, returned |-> FALSE, service |-> <<>>,
     account |-> <<>>]

NoResult == [success |-> FALSE, error |-> "none", errors |-> <<>>, detail |-> "",
             credential |-> <<>>]

Ok(credential) == [success |-> TRUE, error |-> "", errors |-> <<>>, detail |-> "",
                   credential |-> credential]

Fail(error, errors, detail) ==
    [success |-> FALSE, error |-> error, errors |-> errors, detail |-> detail,
     credential |-> <<>>]

IdleTask ==
    [pc |-> "idle", op |-> "none", cid |-> 0, service |-> <<>>, account |-> <<>>,
     credential |-> <<>>, inTry |-> FALSE, entry |-> NoEntry, raw |-> <<>>,
     existing |-> EmptyLog, atRead |-> <<>>, held |-> NoCredential, plain |-> <<>>,
     todo |-> {}, result |-> NoResult, primary |-> "none", io |-> {},
     logged |-> "none", auditFailed |-> FALSE, expect |-> NoStore]

NoReturn ==
    [op |-> "none", cid |-> 0, service |-> <<>>, account |-> <<>>, credential |-> <<>>,
     result |-> NoResult, threw |-> FALSE, primary |-> "none", io |-> {},
     logged |-> "none", auditFailed |-> FALSE, expect |-> NoStore, expectHeld |-> FALSE]

NoLog ==
    [cid |-> 0, entry |-> NoEntry, raw |-> <<>>, atRead |-> <<>>, base |-> <<>>,
     before |-> <<>>, output |-> <<>>, at |-> 0]

\* error.message of a rejected LocalStorage call
storageError == "LocalStorage failure"

----------------------------------------------------------------------------
(* LocalStorage *)

ReadOutcomes == IF faults > 0 THEN {"ok", "throw", "garbage", "nullArray"} ELSE {"ok"}
WriteOutcomes == IF faults > 0 THEN {"ok", "throw"} ELSE {"ok"}
Spend(outcome) == IF outcome = "ok" THEN faults ELSE faults - 1

getItem(key, outcome) ==
    CASE outcome = "ok" ->
            [threw |-> FALSE, found |-> key \in DOMAIN storage,
             text |-> IF key \in DOMAIN storage THEN storage[key] ELSE GarbageText]
      [] outcome = "throw" -> [threw |-> TRUE, found |-> FALSE, text |-> GarbageText]
      [] outcome = "garbage" -> [threw |-> FALSE, found |-> TRUE, text |-> GarbageText]
      [] outcome = "nullArray" -> [threw |-> FALSE, found |-> TRUE, text |-> NullArrayText]

setItem(key, text) == (key :> text) @@ storage

removeItem(key) == [k \in DOMAIN storage \ {key} |-> storage[k]]

PersistedLog ==
    IF auditStorageKey \in DOMAIN storage THEN storage[auditStorageKey].items ELSE <<>>

LastStoredAt(key) == IF key \in DOMAIN lastStored THEN lastStored[key] ELSE NoStore

----------------------------------------------------------------------------
(* EnvironmentValidator (environment-validator.ts): pure in the environment *)
(* of the process.  A variable that is not set has the value <<>>; the     *)
(* code tests every variable by its truthiness or against a literal, so it *)
(* does not tell an unset variable from an empty one.                      *)

\* the names of the environment variables the validator reads
EnvVar ==
    [NODE_ENV |-> <<"N", "O", "D", "E", "_", "E", "N", "V">>,
     RAYCAST_OWNER_EMAIL |-> <<"R", "A", "Y", "C", "A", "S", "T", "_", "O", "W",
                               "N", "E", "R", "_", "E", "M", "A", "I", "L">>,
     NOTION_API_TOKEN |-> <<"N", "O", "T", "I", "O", "N", "_", "A", "P", "I", "_",
                            "T", "O", "K", "E", "N">>,
     PLAID_CLIENT_SECRET |-> <<"P", "L", "A", "I", "D", "_", "C", "L", "I", "E",
                               "N", "T", "_", "S", "E", "C", "R", "E", "T">>,
     PLAID_SECRET |-> <<"P", "L", "A", "I", "D", "_", "S", "E", "C", "R", "E", "T">>,
     API_KEY |-> <<"A", "P", "I", "_", "K", "E", "Y">>,
     SECRET_KEY |-> <<"S", "E", "C", "R", "E", "T", "_", "K", "E", "Y">>,
     PASSWORD |-> <<"P", "A", "S", "S", "W", "O", "R", "D">>,
     HTTPS |-> <<"H", "T", "T", "P", "S">>,
     SSL_CERT |-> <<"S", "S", "L", "_", "C", "E", "R", "T">>,
     TLS_CERT |-> <<"T", "L", "S", "_", "C", "E", "R", "T">>,
     FORCE_HTTPS |-> <<"F", "O", "R", "C", "E", "_", "H", "T", "T", "P", "S">>,
     DEBUG |-> <<"D", "E", "B", "U", "G">>,
     VERBOSE |-> <<"V", "E", "R", "B", "O", "S", "E">>,
     LOG_LEVEL |-> <<"L", "O", "G", "_", "L", "E", "V", "E", "L">>,
     NODE_TLS_REJECT_UNAUTHORIZED |->
         <<"N", "O", "D", "E", "_", "T", "L", "S", "_", "R", "E", "J", "E", "C", "T",
           "_", "U", "N", "A", "U", "T", "H", "O", "R", "I", "Z", "E", "D">>]

REQUIRED_ENV_VARS == <<EnvVar.NODE_ENV, EnvVar.RAYCAST_OWNER_EMAIL>>

FORBIDDEN_ENV_VARS ==
    <<EnvVar.NOTION_API_TOKEN, EnvVar.PLAID_CLIENT_SECRET, EnvVar.PLAID_SECRET,
      EnvVar.API_KEY, EnvVar.SECRET_KEY, EnvVar.PASSWORD>>

\* the values the variables take
V_true == <<"t", "r", "u", "e">>
V_production == <<"p", "r", "o", "d", "u", "c", "t", "i", "o", "n">>

detectEnvironment(e) ==
    LET nodeEnv == toLowerCase(e.env[EnvVar.NODE_ENV])
    IN  IF nodeEnv = V_production THEN "production"
        ELSE IF nodeEnv = <<"t", "e", "s", "t">> THEN "test"
        ELSE "development"

looksLikeSecret(key, value) ==
    LET secretKeywords ==
            { <<"k", "e", "y">>, <<"s", "e", "c", "r", "e", "t">>,
              <<"t", "o", "k", "e", "n">>,
              <<"p", "a", "s", "s", "w", "o", "r", "d">>, <<"p", "a", "s", "s">>,
              <<"a", "u", "t", "h">>,
              <<"c", "r", "e", "d", "e", "n", "t", "i", "a", "l">>,
              <<"a", "p", "i">>, <<"p", "r", "i", "v", "a", "t", "e">>,
              <<"c", "e", "r", "t">>,
              <<"s", "i", "g", "n", "a", "t", "u", "r", "e">> }
        hasSecretKeyword ==
            \E keyword \in secretKeywords : Includes(toLowerCase(key), keyword)
        looksLikeToken ==
            /\ Len(value) > 20
            /\ Range(value) \subseteq
                  Range(LowerLetters) \cup Range(UpperLetters) \cup Range(Digits)
                     \cup {"+", "/", "=", "_", "-"}
    IN  value # <<>> /\ hasSecretKeyword /\ looksLikeToken

isHttpsEnabled(e) ==
    \/ e.env[EnvVar.HTTPS] = V_true
    \/ e.env[EnvVar.SSL_CERT] # <<>>
    \/ e.env[EnvVar.TLS_CERT] # <<>>
    \/ e.env[EnvVar.FORCE_HTTPS] = V_true

isDebugLoggingEnabled(e) ==
    \/ e.env[EnvVar.DEBUG] # <<>>
    \/ e.env[EnvVar.VERBOSE] = V_true
    \/ e.env[EnvVar.LOG_LEVEL] = <<"d", "e", "b", "u", "g">>

\* one element per element of names that satisfies test, made by make
Collect(names, test(_), make(_)) ==
    LET kept == SelectSeq(names, test)
    IN  [i \in DOMAIN kept |-> make(kept[i])]

Error(code, message, subject) ==
    [code |-> code, message |-> message, subject |-> subject, severity |-> "error"]

\* the order in which Object.entries(process.env) is walked
EnvOrder ==
    <<EnvVar.NODE_ENV, EnvVar.RAYCAST_OWNER_EMAIL, EnvVar.NOTION_API_TOKEN,
      EnvVar.PLAID_CLIENT_SECRET, EnvVar.PLAID_SECRET, EnvVar.API_KEY,
      EnvVar.SECRET_KEY, EnvVar.PASSWORD, EnvVar.HTTPS, EnvVar.SSL_CERT,
      EnvVar.TLS_CERT, EnvVar.FORCE_HTTPS, EnvVar.DEBUG, EnvVar.VERBOSE,
      EnvVar.LOG_LEVEL, EnvVar.NODE_TLS_REJECT_UNAUTHORIZED>>

\* validate with the checks of the required and the forbidden variables only
validateWithoutTLS(e) ==
    LET errors ==
            Collect(REQUIRED_ENV_VARS, LAMBDA v : e.env[v] = <<>>,
                    LAMBDA v : Error("MISSING_REQUIREMENTS",
                                     "Required environment variable is not set", v))
            \o Collect(FORBIDDEN_ENV_VARS, LAMBDA v : e.env[v] # <<>>,
                       LAMBDA v : Error("POLICY_VIOLATION",
                                        "Forbidden environment variable detected", v))
    IN  [isValid |-> Len(errors) = 0, errors |-> errors, warnings |-> <<>>,
         environment |-> detectEnvironment(e)]

\* EnvironmentValidator.validate: the six checks in their order, then
\* isValid = (errors.length === 0)
validate(e) ==
    LET detected == detectEnvironment(e)
        requireHttps == detected = "production"
        enableDebugLogging == detected # "production"
        skipCertificateValidation == FALSE
        darwin == e.platform = "darwin"
        isSecurityCommandAvailable == darwin
        canAccessKeychain == darwin
        errors ==
            Collect(REQUIRED_ENV_VARS, LAMBDA v : e.env[v] = <<>>,
                    LAMBDA v : Error("MISSING_REQUIREMENTS",
                                     "Required environment variable is not set", v))
            \o Collect(FORBIDDEN_ENV_VARS, LAMBDA v : e.env[v] # <<>>,
                       LAMBDA v : Error("POLICY_VIOLATION",
                                        "Forbidden environment variable detected", v))
            \o (IF requireHttps /\ ~isHttpsEnabled(e)
                THEN <<Error("INSECURE_ENVIRONMENT",
                             "HTTPS is required in this environment", <<>>)>>
                ELSE <<>>)
            \o (IF ~darwin
                THEN <<Error("MISSING_REQUIREMENTS",
                             "Pulse requires macOS for Keychain integration", <<>>)>>
                ELSE IF ~isSecurityCommandAvailable
                THEN <<Error("MISSING_REQUIREMENTS",
                             "macOS security command is not available", <<>>)>>
                ELSE <<>>)
            \o (IF e.env[EnvVar.NODE_TLS_REJECT_UNAUTHORIZED] = <<"0">>
                THEN <<Error("INSECURE_ENVIRONMENT",
                             "TLS certificate validation is disabled", <<>>)>>
                ELSE <<>>)
        warnings ==
            Collect(EnvOrder, LAMBDA v : looksLikeSecret(v, e.env[v]),
                    LAMBDA v : "Environment variable appears to contain sensitive data")
            \o (IF ~enableDebugLogging /\ isDebugLoggingEnabled(e)
                THEN <<"Debug logging is enabled">> ELSE <<>>)
            \o (IF skipCertificateValidation
                THEN <<"Certificate validation is disabled">> ELSE <<>>)
            \o (IF darwin /\ ~canAccessKeychain
                THEN <<"Keychain access may be restricted">> ELSE <<>>)
            \o (IF e.nodeMajor < 16 THEN <<"Node.js is outdated">> ELSE <<>>)
            \o [i \in 1..Cardinality(e.insecureFlags) |->
                   "Insecure Node.js flag detected"]
            \o (IF ~e.cwdExpected
                THEN <<"Running from unexpected directory">> ELSE <<>>)
    IN  [isValid |-> Len(errors) = 0, errors |-> errors, warnings |-> warnings,
         environment |-> detected]

\* errors.some((e) => e.code === code)
SomeError(validation, code) ==
    \E i \in DOMAIN validation.errors : validation.errors[i].code = code

\* EnvironmentValidator.getSecurityRequirements
getSecurityRequirements(e) ==
    LET validation == validate(e)
    IN  <<[name |-> "macOS Platform", required |-> TRUE,
           met |-> e.platform = "darwin"],
          [name |-> "Required Environment Variables", required |-> TRUE,
           met |-> ~SomeError(validation, "MISSING_REQUIREMENTS")],
          [name |-> "No Forbidden Environment Variables", required |-> TRUE,
           met |-> ~SomeError(validation, "POLICY_VIOLATION")],
          [name |-> "Secure Transport",
           required |-> validation.environment = "production",
           met |-> validation.environment # "production" \/ isHttpsEnabled(e)],
          [name |-> "TLS Certificate Validation", required |-> TRUE,
           met |-> e.env[EnvVar.NODE_TLS_REJECT_UNAUTHORIZED] # <<"0">>],
          [name |-> "Security Command Available", required |-> TRUE,
           met |-> e.platform = "darwin"]>>

\* an environment: the variables named in given have the values given, and
\* the others are not set
EnvironmentOf(given, platform, nodeMajor) ==
    [env |-> [name \in Range(EnvOrder) |->
                 IF name \in DOMAIN given THEN given[name] ELSE <<>>],
     platform |-> platform, nodeMajor |-> nodeMajor, insecureFlags |-> {},
     cwdExpected |-> TRUE]

\* the environment of the other components: development on the supported
\* platform
SupportedEnvironment ==
    EnvironmentOf((EnvVar.NODE_ENV :> <<"d", "e", "v">>)
                     @@ (EnvVar.RAYCAST_OWNER_EMAIL :> <<"o", "@", "x">>),
                  "darwin", 20)

----------------------------------------------------------------------------
(* Initial state: a fresh process over an empty LocalStorage *)

InitCommon ==
    /\ storage = <<>>
    /\ keychain = <<>>
    /\ environment = SupportedEnvironment
    /\ now = 0
    /\ tasks = [t \in Tasks |-> IdleTask]
    /\ returned = NoReturn
    /\ calls = 0
    /\ ticks = 0
    /\ lastLog = NoLog
    /\ lastStored = <<>>

Init == InitCommon /\ faults = 0

InitFault == InitCommon /\ faults = MaxFaults

----------------------------------------------------------------------------
(* SecurityAudit.log: the synchronous head of the call (the entry is built *)
(* and getAuditLog is entered); the record returned is the caller's frame  *)
(* waiting on the read.                                                    *)

log(rec, eventType, result, data, inTry) ==
    [rec EXCEPT
        !.pc = "logRead",
        !.inTry = inTry,
        !.raw = data,
        !.entry = [id |-> rec.cid, timestamp |-> now, eventType |-> eventType,
                   result |-> result, data |-> sanitizeLogData(data),
                   sessionId |-> sessionId, version |-> 1]]

DataOf(service, account) ==
    (K_service :> Str(service)) @@ (K_account :> Str(account))

NewCall(op, service, account, credential) ==
    [IdleTask EXCEPT !.op = op, !.cid = calls + 1, !.service = service,
                     !.account = account, !.credential = credential]

\* the call returns (or rejects, when threw) to its caller
Return(t, rec, result, threw) ==
    LET key == generateStorageKey(rec.service, rec.account)
    IN  /\ tasks' = [tasks EXCEPT ![t] = IdleTask]
        /\ returned' =
              [op |-> rec.op, cid |-> rec.cid, service |-> rec.service,
               account |-> rec.account, credential |-> rec.credential,
               result |-> result, threw |-> threw, primary |-> rec.primary,
               io |-> rec.io, logged |-> rec.logged, auditFailed |-> rec.auditFailed,
               expect |-> rec.expect,
               expectHeld |-> rec.expect # NoStore /\ LastStoredAt(key) = rec.expect]
        /\ lastStored' =
              IF rec.op \in {"store", "delete"} /\ ~threw /\ result.success
                 /\ LastStoredAt(key).cid = rec.cid
              THEN [lastStored EXCEPT ![key].returned = TRUE]
              ELSE lastStored

\* the message and the result of the catch block of store, retrieve and delete
CatchError(op) ==
    CASE op = "store" -> "Storage failed"
      [] op = "retrieve" -> "Retrieval failed"
      [] op = "delete" -> "Deletion failed"
      [] OTHER -> "Failed to clear credentials"

CatchEvent(op) ==
    CASE op = "store" -> "credential_stored"
      [] op = "retrieve" -> "credential_retrieved"
      [] OTHER -> "credential_deleted"

\* the catch block of store, retrieve and delete: one FAILED entry, then the
\* failure result
Catch(rec, primary) ==
    log([rec EXCEPT !.primary = primary,
                    !.result = Fail(CatchError(rec.op), <<>>, storageError)],
        CatchEvent(rec.op), "FAILED",
        DataOf(rec.service, rec.account) @@ (K_error :> Msg(storageError)),
        FALSE)

----------------------------------------------------------------------------
(* Actions *)

\* a new call runs on the first call chain that is free (the chains are
\* interchangeable)
CanStart(t, limit) ==
    /\ tasks[t].pc = "idle"
    /\ calls < limit
    /\ t = "t1" \/ tasks["t1"].pc # "idle"

\* the clock advances; a call completes within one unit of the clock, so the
\* clock moves between calls
Tick ==
    /\ ticks < MaxTicks
    /\ \A t \in Tasks : tasks[t].pc = "idle"
    /\ \E d \in TickSteps : now' = now + d
    /\ ticks' = ticks + 1
    /\ returned' = NoReturn
    /\ lastLog' = NoLog
    /\ UNCHANGED <<storage, tasks, calls, faults, lastStored>>
    /\ UNCHANGED <<keychain, environment>>

\* a caller invokes SecurityAudit.log directly
LogCall(t) ==
    /\ CanStart(t, MaxLogCalls)
    /\ \E input \in LogInputs :
          tasks' = [tasks EXCEPT ![t] =
              log([NewCall("log", <<>>, <<>>, <<>>) EXCEPT !.primary = "log"],
                  input.eventType, input.result, input.data, TRUE)]
    /\ calls' = calls + 1
    /\ returned' = NoReturn
    /\ lastLog' = NoLog
    /\ UNCHANGED <<storage, now, ticks, faults, lastStored>>
    /\ UNCHANGED <<keychain, environment>>

\* getAuditLog: LocalStorage.getItem of the audit key lands
LogRead(t) ==
    /\ tasks[t].pc = "logRead"
    /\ \E outcome \in ReadOutcomes :
          /\ tasks' = [tasks EXCEPT
                ![t].pc = "logWrite",
                ![t].existing = getAuditLog(getItem(auditStorageKey, outcome)),
                ![t].atRead = PersistedLog,
                ![t].io = @ \cup {"audit"}]
          /\ faults' = Spend(outcome)
    /\ returned' = NoReturn
    /\ lastLog' = NoLog
    /\ UNCHANGED <<storage, now, calls, ticks, lastStored>>
    /\ UNCHANGED <<keychain, environment>>

\* a write computed from the log as persisted at the time of the write
WriteBaseReread(t) == PersistedLog

\* the log the write is computed from: what this call read
WriteBase(t) == tasks[t].existing.items

\* push, enforceRetentionPolicy, LocalStorage.setItem of the audit key lands,
\* log returns and so does the method that awaited it
LogWrite(t) ==
    /\ tasks[t].pc = "logWrite"
    /\ LET rec == tasks[t]
           sortThrows == rec.existing.nulls
           trimmed == enforceRetentionPolicy(Append(WriteBase(t), rec.entry), now)
       IN  \E outcome \in (IF sortThrows THEN {"ok"} ELSE WriteOutcomes) :
             LET failed == sortThrows \/ outcome = "throw"
                 done == [rec EXCEPT !.logged = IF failed THEN @ ELSE rec.entry.result,
                                     !.auditFailed = failed]
             IN  /\ faults' = Spend(outcome)
                 /\ storage' = IF failed THEN storage
                               ELSE setItem(auditStorageKey, StringifyLog(trimmed))
                 /\ lastLog' = IF failed THEN NoLog
                               ELSE [cid |-> rec.cid, entry |-> rec.entry, raw |-> rec.raw,
                                     atRead |-> rec.atRead, base |-> WriteBase(t),
                                     before |-> PersistedLog, output |-> trimmed,
                                     at |-> now]
                 /\ IF ~LogRaises(failed)
                    THEN Return(t, done, rec.result, FALSE)
                    ELSE IF rec.op \in {"store", "retrieve", "delete"} /\ rec.inTry
                    THEN /\ tasks' = [tasks EXCEPT ![t] = Catch(done, rec.primary)]
                         /\ returned' = NoReturn
                         /\ UNCHANGED lastStored
                    ELSE IF rec.op = "clearAll" /\ rec.inTry
                    THEN Return(t, done, Fail(CatchError(rec.op), <<>>, storageError), FALSE)
                    ELSE Return(t, done, rec.result, TRUE)
    /\ UNCHANGED <<now, calls, ticks>>
    /\ UNCHANGED <<keychain, environment>>

\* KeychainManager.store up to the landing of its setItem: validation,
\* encryption, the StoredCredential, LocalStorage.setItem, and the head of
\* the audit call that follows
StoreOf(t, limit, inputs) ==
    /\ CanStart(t, limit)
    /\ \E input \in inputs, outcome \in WriteOutcomes :
          LET service == input[1]
              account == input[2]
              credential == input[3]
              rec == NewCall("store", service, account, credential)
              validation == validateCredentialParams(service, account, credential)
              encryptionResult == encrypt(credential, masterPassword, rec.cid, rec.cid)
              storedCredential ==
                  [encrypted |-> encryptionResult.encrypted,
                   type |-> inferCredentialType(service, account),
                   createdAt |-> now, lastAccessed |-> now, version |-> 1]
              storageKey == generateStorageKey(service, account)
          IN  IF ~validation.isValid
              THEN /\ outcome = "ok"
                   /\ tasks' = [tasks EXCEPT ![t] =
                         log([rec EXCEPT !.primary = "invalid",
                                         !.result = Fail("Validation failed",
                                                         validation.errors, "")],
                             "credential_stored", "FAILED",
                             DataOf(service, account)
                                 @@ (K_errors :> List(validation.errors)),
                             TRUE)]
                   /\ UNCHANGED <<storage, faults, lastStored>>
              ELSE IF ~encryptionResult.success
              THEN /\ outcome = "ok"
                   /\ tasks' = [tasks EXCEPT ![t] =
                         log([rec EXCEPT !.primary = "encryptFailed",
                                         !.result = Fail("Failed to encrypt credential",
                                                         <<>>, "")],
                             "credential_stored", "FAILED",
                             DataOf(service, account)
                                 @@ (K_error :> Msg("Encryption failed")),
                             TRUE)]
                   /\ UNCHANGED <<storage, faults, lastStored>>
              ELSE IF outcome = "ok"
              THEN /\ storage' = setItem(storageKey, StringifyCredential(storedCredential))
                   /\ lastStored' = (storageKey :> [cid |-> rec.cid,
                                                    credential |-> credential,
                                                    returned |-> FALSE,
                                                    service |-> service,
                                                    account |-> account]) @@ lastStored
                   /\ tasks' = [tasks EXCEPT ![t] =
                         log([rec EXCEPT !.primary = "stored", !.io = {"credential"},
                                         !.result = Ok(<<>>)],
                             "credential_stored", "SUCCESS",
                             DataOf(service, account)
                                 @@ (K_type :> Msg(storedCredential.type)),
                             TRUE)]
                   /\ UNCHANGED faults
              ELSE /\ tasks' = [tasks EXCEPT ![t] =
                         Catch([rec EXCEPT !.io = {"credential"}], "setThrew")]
                   /\ faults' = Spend(outcome)
                   /\ UNCHANGED <<storage, lastStored>>
    /\ calls' = calls + 1
    /\ returned' = NoReturn
    /\ lastLog' = NoLog
    /\ UNCHANGED <<now, ticks>>
    /\ UNCHANGED <<keychain, environment>>

\* store called with the arguments of StoreInputs
StoreCall(t, limit) == StoreOf(t, limit, StoreInputs)

\* KeychainManager.retrieve up to its decryption: validation, the landing of
\* LocalStorage.getItem, JSON.parse and decrypt
RetrieveOf(t, limit, inputs) ==
    /\ CanStart(t, limit)
    /\ \E input \in inputs, outcome \in ReadOutcomes,
          final \in {"not reached", "plaintext", "bad decrypt", "padded"} :
          LET service == input[1]
              account == input[2]
              storageKey == generateStorageKey(service, account)
              rec == [NewCall("retrieve", service, account, <<>>) EXCEPT
                          !.expect = IF LastStoredAt(storageKey).returned
                                     THEN LastStoredAt(storageKey) ELSE NoStore]
              got == [rec EXCEPT !.io = {"credential"}]
              storedData == getItem(storageKey, outcome)
              parsed == JSONparse(storedData.text)
              encryptedData ==
                  IF parsed.value.shape = "object"
                  THEN parsed.value.object.encrypted ELSE NoEnvelope
              decryptionResult == decrypt(encryptedData, masterPassword, final)
              failure(r, primary, message, error) ==
                  log([r EXCEPT !.primary = primary, !.result = Fail(error, <<>>, "")],
                      "credential_retrieved", "FAILED",
                      DataOf(service, account) @@ (K_error :> Msg(message)),
                      TRUE)
          IN  IF ~isValidServiceName(service) \/ ~isValidAccountName(account)
              THEN /\ outcome = "ok"
                   /\ final = "not reached"
                   /\ tasks' = [tasks EXCEPT ![t] =
                         failure(rec, "invalid", "Invalid service or account name",
                                 "Invalid service or account name")]
                   /\ UNCHANGED faults
              ELSE /\ final \in FinalOutcomes(encryptedData, masterPassword)
                   /\ faults' = Spend(outcome)
                   /\ tasks' = [tasks EXCEPT ![t] =
                         IF storedData.threw THEN Catch(got, "getThrew")
                         ELSE IF ~storedData.found
                         THEN failure(got, "notFound", "Credential not found",
                                      "Credential not found")
                         ELSE IF parsed.threw
                         THEN failure(got, "badFormat", "Invalid stored credential format",
                                      "Invalid stored credential format")
                         ELSE IF ~decryptionResult.success
                                 \/ decryptionResult.decrypted = <<>>
                         THEN failure(got, "decryptFailed", "Decryption failed",
                                      "Failed to decrypt credential")
                         ELSE [got EXCEPT !.pc = "retrieveSet",
                                          !.held = parsed.value.object,
                                          !.plain = decryptionResult.decrypted]]
    /\ calls' = calls + 1
    /\ returned' = NoReturn
    /\ lastLog' = NoLog
    /\ UNCHANGED <<storage, now, ticks, lastStored>>
    /\ UNCHANGED <<keychain, environment>>

\* KeychainManager.retrieve: the lastAccessed write-back lands, then the head
\* of the audit call
RetrieveSet(t) ==
    /\ tasks[t].pc = "retrieveSet"
    /\ \E outcome \in WriteOutcomes :
          LET rec == tasks[t]
              storageKey == generateStorageKey(rec.service, rec.account)
              storedCredential == [rec.held EXCEPT !.lastAccessed = now]
          IN  /\ faults' = Spend(outcome)
              /\ IF outcome = "ok"
                 THEN /\ storage' = setItem(storageKey,
                                            StringifyCredential(storedCredential))
                      /\ tasks' = [tasks EXCEPT ![t] =
                            log([rec EXCEPT !.primary = "retrieved",
                                            !.result = Ok(rec.plain)],
                                "credential_retrieved", "SUCCESS",
                                DataOf(rec.service, rec.account)
                                    @@ (K_type :> Msg(storedCredential.type)),
                                TRUE)]
                 ELSE /\ tasks' = [tasks EXCEPT ![t] = Catch(rec, "setThrew")]
                      /\ UNCHANGED storage
    /\ returned' = NoReturn
    /\ lastLog' = NoLog
    /\ UNCHANGED <<now, calls, ticks, lastStored>>
    /\ UNCHANGED <<keychain, environment>>

\* retrieve called with the arguments of KeyInputs
RetrieveCall(t, limit) == RetrieveOf(t, limit, KeyInputs)

\* KeychainManager.delete up to its existence check: LocalStorage.getItem lands
DeleteOf(t, limit, inputs) ==
    /\ CanStart(t, limit)
    /\ \E input \in inputs, outcome \in ReadOutcomes :
          LET service == input[1]
              account == input[2]
              storageKey == generateStorageKey(service, account)
              rec == [NewCall("delete", service, account, <<>>) EXCEPT
                          !.io = {"credential"}]
              exists == getItem(storageKey, outcome)
          IN  /\ faults' = Spend(outcome)
              /\ IF exists.threw
                 THEN /\ tasks' = [tasks EXCEPT ![t] = Catch(rec, "getThrew")]
                      /\ returned' = NoReturn
                      /\ UNCHANGED lastStored
                 ELSE IF ~exists.found
                 THEN Return(t, [rec EXCEPT !.primary = "notFound"],
                             Fail("Credential not found", <<>>, ""), FALSE)
                 ELSE /\ tasks' = [tasks EXCEPT ![t] = [rec EXCEPT !.pc = "deleteRemove"]]
                      /\ returned' = NoReturn
                      /\ UNCHANGED lastStored
    /\ calls' = calls + 1
    /\ lastLog' = NoLog
    /\ UNCHANGED <<storage, now, ticks>>
    /\ UNCHANGED <<keychain, environment>>

\* delete called with the arguments of DeleteInputs
DeleteCall(t, limit) == DeleteOf(t, limit, DeleteInputs)

\* KeychainManager.delete: LocalStorage.removeItem lands, then the head of the
\* audit call
DeleteRemove(t) ==
    /\ tasks[t].pc = "deleteRemove"
    /\ \E outcome \in WriteOutcomes :
          LET rec == tasks[t]
              storageKey == generateStorageKey(rec.service, rec.account)
          IN  /\ faults' = Spend(outcome)
              /\ IF outcome = "ok"
                 THEN /\ storage' = removeItem(storageKey)
                      /\ lastStored' = (storageKey :> [cid |-> rec.cid,
                                                       credential |-> <<>>,
                                                       returned |-> FALSE,
                                                       service |-> rec.service,
                                                       account |-> rec.account])
                                           @@ lastStored
                      /\ tasks' = [tasks EXCEPT ![t] =
                            log([rec EXCEPT !.primary = "deleted", !.result = Ok(<<>>)],
                                "credential_deleted", "SUCCESS",
                                DataOf(rec.service, rec.account), TRUE)]
                 ELSE /\ tasks' = [tasks EXCEPT ![t] = Catch(rec, "removeThrew")]
                      /\ UNCHANGED <<storage, lastStored>>
    /\ returned' = NoReturn
    /\ lastLog' = NoLog
    /\ UNCHANGED <<now, calls, ticks>>
    /\ UNCHANGED <<keychain, environment>>

\* the aggregate audit call of clearAll
ClearedLog(rec) ==
    log([rec EXCEPT !.primary = "cleared", !.result = Ok(<<>>)],
        "credential_deleted", "SUCCESS",
        (K_action :> Msg("clear_all_credentials")), TRUE)

\* KeychainManager.clearAll: LocalStorage.allItems lands
ClearCall(t, limit) ==
    /\ CanStart(t, limit)
    /\ \E outcome \in WriteOutcomes :
          LET rec == [NewCall("clearAll", <<>>, <<>>, <<>>) EXCEPT
                          !.io = {"credential"}]
              keys == { k \in DOMAIN storage : StartsWith(k, Prefix) }
          IN  /\ faults' = Spend(outcome)
              /\ IF outcome = "throw"
                 THEN Return(t, [rec EXCEPT !.primary = "listThrew"],
                             Fail(CatchError("clearAll"), <<>>, storageError), FALSE)
                 ELSE /\ tasks' = [tasks EXCEPT ![t] =
                            IF keys = {} THEN ClearedLog(rec)
                            ELSE [rec EXCEPT !.pc = "clearRemove", !.todo = keys]]
                      /\ returned' = NoReturn
                      /\ UNCHANGED lastStored
    /\ calls' = calls + 1
    /\ lastLog' = NoLog
    /\ UNCHANGED <<storage, now, ticks>>
    /\ UNCHANGED <<keychain, environment>>

\* KeychainManager.clearAll: the removeItem of one listed key lands
ClearRemove(t) ==
    /\ tasks[t].pc = "clearRemove"
    /\ \E key \in tasks[t].todo, outcome \in WriteOutcomes :
          LET rec == [tasks[t] EXCEPT !.todo = @ \ {key}]
          IN  /\ faults' = Spend(outcome)
              /\ IF outcome = "throw"
                 THEN /\ Return(t, [rec EXCEPT !.primary = "removeThrew"],
                                Fail(CatchError("clearAll"), <<>>, storageError), FALSE)
                      /\ UNCHANGED storage
                 ELSE /\ storage' = removeItem(key)
                      /\ lastStored' = [k \in DOMAIN lastStored \ {key} |-> lastStored[k]]
                      /\ tasks' = [tasks EXCEPT ![t] =
                            IF rec.todo = {} THEN ClearedLog(rec) ELSE rec]
                      /\ returned' = NoReturn
    /\ lastLog' = NoLog
    /\ UNCHANGED <<now, calls, ticks>>
    /\ UNCHANGED <<keychain, environment>>

----------------------------------------------------------------------------
(* Platform Secret Store Adapter (keychain-manager.ts): the `security`     *)
(* command run through a shell by execAsync, and the methods over it.      *)

\* messages of the command and of the shell
NotFoundMessage == "The specified item could not be found in the keychain."
ExistsMessage == "The specified item already exists in the keychain."
ShellMessage == "Syntax error: Unterminated quoted string"
DeniedMessage == "User interaction is not allowed."

\* a delete that takes no message for the report of an absent entry
CouldNotBeFoundNever(message) == FALSE

\* errorMessage.includes('could not be found'), on the messages above
CouldNotBeFound(message) == message = NotFoundMessage

\* what the shell makes of "${value}": a parameter expansion $x is replaced
\* by the empty string
RECURSIVE ShellWord(_)
ShellWord(value) ==
    IF value = <<>> THEN <<>>
    ELSE IF Head(value) = "$" /\ Len(value) >= 2 THEN ShellWord(Tail(Tail(value)))
    ELSE <<Head(value)>> \o ShellWord(Tail(value))

\* an unpaired double quote in a value ends the quoting of the command line
ShellRejects(values) == \E v \in values : "\"" \in Range(v)

\* String.prototype.trim, on the blank and the line feed
RECURSIVE TrimStart(_)
TrimStart(str) ==
    IF str # <<>> /\ Head(str) \in {" ", "\n"} THEN TrimStart(Tail(str)) ELSE str

RECURSIVE TrimEnd(_)
TrimEnd(str) ==
    IF str # <<>> /\ str[Len(str)] \in {" ", "\n"}
    THEN TrimEnd(SubSeq(str, 1, Len(str) - 1)) ELSE str

trim(str) == TrimEnd(TrimStart(str))

\* the command line: the verb and the values interpolated into it
Command(verb, service, account, password) ==
    [verb |-> verb, service |-> service, account |-> account, password |-> password]

\* how a command may end: it runs; a find of an absent entry may instead exit
\* normally and report on stderr; and the command may fail for another reason
ExecOutcomes(command) ==
    {"run"}
    \cup (IF command.verb = "find" THEN {"quiet"} ELSE {})
    \cup (IF faults > 0 THEN {"denied"} ELSE {})

\* execAsync(command): rejected with a message, or resolved with stdout and
\* stderr; `store` is the credential manager afterwards
execAsync(command, outcome) ==
    LET key == <<ShellWord(command.service), ShellWord(command.account)>>
        held == key \in DOMAIN keychain
        rejected(message) ==
            [rejected |-> TRUE, message |-> message, stdout |-> <<>>,
             notFoundOnStderr |-> FALSE, store |-> keychain]
        resolved(stdout, store) ==
            [rejected |-> FALSE, message |-> "", stdout |-> stdout,
             notFoundOnStderr |-> FALSE, store |-> store]
    IN  IF outcome = "denied" THEN rejected(DeniedMessage)
        ELSE IF ShellRejects({command.service, command.account, command.password})
        THEN rejected(ShellMessage)
        ELSE IF command.verb = "add"
        THEN IF held THEN rejected(ExistsMessage)
             ELSE resolved(<<>>, (key :> ShellWord(command.password)) @@ keychain)
        ELSE IF command.verb = "find"
        THEN IF held THEN resolved(keychain[key] \o <<"\n">>, keychain)
             ELSE IF outcome = "quiet"
             THEN [resolved(<<>>, keychain) EXCEPT !.notFoundOnStderr = TRUE]
             ELSE rejected(NotFoundMessage)
        ELSE IF held
        THEN resolved(<<>>, [k \in DOMAIN keychain \ {key} |-> keychain[k]])
        ELSE rejected(NotFoundMessage)

\* the adapter's delete from its validation to its result
AdapterDelete(service, account, outcome) ==
    IF service = <<>> \/ account = <<>>
    THEN [result |-> Fail("Service and account are required", <<>>, ""),
          issued |-> {}, store |-> keychain]
    ELSE LET done == execAsync(Command("delete", service, account, <<>>), outcome)
         IN  [result |-> IF ~done.rejected THEN Ok(<<>>)
                         ELSE IF CouldNotBeFound(done.message) THEN Ok(<<>>)
                         ELSE Fail("Failed to delete credential", <<>>, done.message),
              issued |-> {"delete"}, store |-> done.store]

\* the adapter's retrieve from its validation to its result
AdapterRetrieve(service, account, outcome) ==
    IF service = <<>> \/ account = <<>>
    THEN [result |-> Fail("Service and account are required", <<>>, ""),
          issued |-> {}]
    ELSE LET done == execAsync(Command("find", service, account, <<>>), outcome)
         IN  [result |-> IF done.rejected
                         THEN Fail("Failed to retrieve credential", <<>>, done.message)
                         ELSE IF done.notFoundOnStderr
                         THEN Fail("Credential not found", <<>>, "")
                         ELSE Ok(trim(done.stdout)),
              issued |-> {"find"}]

\* an update that goes on to store whatever its delete reported
UpdateProceedsAlways(deleteResult) == TRUE

\* update goes on to store only when its delete reported success
UpdateProceeds(deleteResult) == deleteResult.success

\* the key of the credential manager a call is about
AdapterKey(service, account) == <<service, account>>

\* an adapter call returns to its caller
AdapterReturn(t, rec, result) ==
    LET key == AdapterKey(rec.service, rec.account)
    IN  /\ tasks' = [tasks EXCEPT ![t] = IdleTask]
        /\ returned' =
              [op |-> rec.op, cid |-> rec.cid, service |-> rec.service,
               account |-> rec.account, credential |-> rec.credential,
               result |-> result, threw |-> FALSE, primary |-> rec.primary,
               io |-> rec.io, logged |-> rec.logged, auditFailed |-> rec.auditFailed,
               expect |-> rec.expect,
               expectHeld |-> rec.expect # NoStore /\ LastStoredAt(key) = rec.expect]

\* the last returned store or delete of the key, for a call that starts now
Expectation(key) ==
    IF LastStoredAt(key).returned THEN LastStoredAt(key) ELSE NoStore

\* the history of a key after a command of the call rec has changed it
Stored(key, rec, secret, isReturn) ==
    (key :> [cid |-> rec.cid, credential |-> secret, returned |-> isReturn,
             service |-> rec.service, account |-> rec.account])
        @@ lastStored

\* inputs of the adapter: a key, the same key with a double quote in the
\* service, an empty account; two secrets, one with a parameter expansion,
\* and the empty one
QuotedId == <<"s", "\"">>
AdapterKeyInputs ==
    { <<ValidId, ValidAccount>>, <<QuotedId, ValidAccount>>, <<ValidId, <<>>>> }
AdapterStoreInputs ==
    { <<ValidId, ValidAccount, <<"p", "1">>>>,
      <<ValidId, ValidAccount, <<"p", "$", "x", "2">>>>,
      <<QuotedId, ValidAccount, <<"p", "1">>>>,
      <<ValidId, ValidAccount, <<>>>> }

\* store() entered with the frame rec: validation, then its delete is issued
AdapterStoreEnter(t, rec) ==
    IF rec.service = <<>> \/ rec.account = <<>> \/ rec.credential = <<>>
    THEN /\ AdapterReturn(t, [rec EXCEPT !.primary = "invalid"],
                          Fail("Service, account, and password are required", <<>>, ""))
         /\ UNCHANGED lastStored
    ELSE /\ tasks' = [tasks EXCEPT ![t] = [rec EXCEPT !.pc = "adapterStoreDelete"]]
         /\ returned' = NoReturn
         /\ UNCHANGED lastStored

\* KeychainManager.store of the adapter is called
AdapterStoreCall(t, limit) ==
    /\ CanStart(t, limit)
    /\ \E input \in AdapterStoreInputs :
          AdapterStoreEnter(t, [NewCall("adapter.store", input[1], input[2], input[3])
                                   EXCEPT !.expect =
                                      Expectation(AdapterKey(input[1], input[2]))])
    /\ calls' = calls + 1
    /\ UNCHANGED <<storage, now, ticks, faults, keychain, environment, lastLog>>

\* store: the delete of a pre-existing entry lands; its result is ignored
AdapterStoreDelete(t) ==
    /\ tasks[t].pc = "adapterStoreDelete"
    /\ LET rec == tasks[t]
           key == AdapterKey(rec.service, rec.account)
       IN  \E outcome \in ExecOutcomes(Command("delete", rec.service, rec.account, <<>>)) :
             LET deleted == AdapterDelete(rec.service, rec.account, outcome)
             IN  /\ keychain' = deleted.store
                 /\ faults' = IF outcome = "denied" THEN faults - 1 ELSE faults
                 /\ lastStored' = IF deleted.store # keychain
                                  THEN Stored(key, rec, <<>>, FALSE) ELSE lastStored
                 /\ tasks' = [tasks EXCEPT ![t] =
                       [rec EXCEPT !.pc = "adapterStoreAdd",
                                   !.io = @ \cup deleted.issued]]
    /\ returned' = NoReturn
    /\ UNCHANGED <<storage, now, calls, ticks, lastLog, environment>>

\* store: the add command lands and store returns
AdapterStoreAdd(t) ==
    /\ tasks[t].pc = "adapterStoreAdd"
    /\ LET rec == tasks[t]
           key == AdapterKey(rec.service, rec.account)
           command == Command("add", rec.service, rec.account, rec.credential)
       IN  \E outcome \in ExecOutcomes(command) :
             LET done == execAsync(command, outcome)
                 issued == [rec EXCEPT !.io = @ \cup {"add"}]
             IN  /\ keychain' = done.store
                 /\ faults' = IF outcome = "denied" THEN faults - 1 ELSE faults
                 /\ IF done.rejected
                    THEN /\ AdapterReturn(t, [issued EXCEPT !.primary =
                                                 IF done.message = ExistsMessage
                                                 THEN "exists" ELSE "addFailed"],
                                          Fail("Failed to store credential", <<>>,
                                               done.message))
                         /\ UNCHANGED lastStored
                    ELSE /\ AdapterReturn(t, [issued EXCEPT !.primary = "stored"],
                                          Ok(<<>>))
                         /\ lastStored' = Stored(key, rec, rec.credential, TRUE)
    /\ UNCHANGED <<storage, now, calls, ticks, lastLog, environment>>

\* KeychainManager.retrieve of the adapter: the find command lands
AdapterRetrieveCall(t, limit) ==
    /\ CanStart(t, limit)
    /\ \E input \in AdapterKeyInputs :
          LET key == AdapterKey(input[1], input[2])
              rec == [NewCall("adapter.retrieve", input[1], input[2], <<>>) EXCEPT
                          !.expect = Expectation(key),
                          !.primary = IF key \in DOMAIN keychain THEN "present"
                                      ELSE "absent"]
          IN  \E outcome \in ExecOutcomes(Command("find", input[1], input[2], <<>>)) :
                LET got == AdapterRetrieve(input[1], input[2], outcome)
                IN  /\ faults' = IF outcome = "denied" /\ got.issued # {}
                                 THEN faults - 1 ELSE faults
                    /\ AdapterReturn(t, [rec EXCEPT !.io = got.issued,
                                                    !.primary =
                                                        IF outcome = "denied"
                                                        THEN "denied" ELSE @],
                                     got.result)
    /\ calls' = calls + 1
    /\ UNCHANGED <<storage, now, ticks, keychain, environment, lastLog, lastStored>>

\* KeychainManager.exists of the adapter: retrieve, reduced to its success
AdapterExistsCall(t, limit) ==
    /\ CanStart(t, limit)
    /\ \E input \in AdapterKeyInputs :
          LET key == AdapterKey(input[1], input[2])
              rec == [NewCall("adapter.exists", input[1], input[2], <<>>) EXCEPT
                          !.expect = Expectation(key)]
          IN  \E outcome \in ExecOutcomes(Command("find", input[1], input[2], <<>>)) :
                LET got == AdapterRetrieve(input[1], input[2], outcome)
                IN  /\ faults' = IF outcome = "denied" /\ got.issued # {}
                                 THEN faults - 1 ELSE faults
                    /\ AdapterReturn(t, [rec EXCEPT !.io = got.issued],
                                     IF got.result.success THEN Ok(<<>>)
                                     ELSE Fail("", <<>>, ""))
    /\ calls' = calls + 1
    /\ UNCHANGED <<storage, now, ticks, keychain, environment, lastLog, lastStored>>

\* KeychainManager.delete of the adapter: the delete command lands
AdapterDeleteCall(t, limit) ==
    /\ CanStart(t, limit)
    /\ \E input \in AdapterKeyInputs :
          LET key == AdapterKey(input[1], input[2])
              rec == [NewCall("adapter.delete", input[1], input[2], <<>>) EXCEPT
                          !.expect = Expectation(key)]
          IN  \E outcome \in ExecOutcomes(Command("delete", input[1], input[2], <<>>)) :
                LET deleted == AdapterDelete(input[1], input[2], outcome)
                IN  /\ keychain' = deleted.store
                    /\ faults' = IF outcome = "denied" /\ deleted.issued # {}
                                 THEN faults - 1 ELSE faults
                    /\ lastStored' =
                          IF deleted.result.success
                          THEN Stored(key, rec, <<>>, TRUE) ELSE lastStored
                    /\ AdapterReturn(t, [rec EXCEPT !.io = deleted.issued,
                                                    !.primary =
                                                        IF outcome = "denied"
                                                        THEN "denied" ELSE "run"],
                                     deleted.result)
    /\ calls' = calls + 1
    /\ UNCHANGED <<storage, now, ticks, lastLog, environment>>

\* KeychainManager.update of the adapter: its delete lands; on success store()
\* is entered
AdapterUpdateCall(t, limit) ==
    /\ CanStart(t, limit)
    /\ \E input \in AdapterStoreInputs :
          LET key == AdapterKey(input[1], input[2])
              rec == [NewCall("adapter.update", input[1], input[2], input[3])
                         EXCEPT !.expect = Expectation(key)]
          IN  \E outcome \in ExecOutcomes(Command("delete", input[1], input[2], <<>>)) :
                LET deleteResult == AdapterDelete(input[1], input[2], outcome)
                    denied == outcome = "denied" /\ deleteResult.issued # {}
                    \* io keeps, with the commands issued, that the delete of
                    \* update itself was denied
                    after == [rec EXCEPT !.io = deleteResult.issued \cup
                                             (IF denied THEN {"deleteDenied"} ELSE {}),
                                         !.primary = "deleteRan"]
                IN  /\ keychain' = deleteResult.store
                    /\ faults' = IF outcome = "denied" /\ deleteResult.issued # {}
                                 THEN faults - 1 ELSE faults
                    /\ IF ~UpdateProceeds(deleteResult.result)
                       THEN /\ AdapterReturn(t, after, deleteResult.result)
                            /\ UNCHANGED lastStored
                       ELSE /\ lastStored' = IF deleteResult.store # keychain
                                             THEN Stored(key, rec, <<>>, FALSE)
                                             ELSE lastStored
                            /\ IF rec.credential = <<>>
                               THEN AdapterReturn(t, [after EXCEPT !.primary = "invalid"],
                                        Fail("Service, account, and password are required",
                                             <<>>, ""))
                               ELSE /\ tasks' = [tasks EXCEPT ![t] =
                                          [after EXCEPT !.pc = "adapterStoreDelete"]]
                                    /\ returned' = NoReturn
    /\ calls' = calls + 1
    /\ UNCHANGED <<storage, now, ticks, lastLog, environment>>

\* callers that use the Platform Secret Store Adapter
NextAdapter(limit) ==
    \/ \E t \in Tasks : AdapterStoreCall(t, limit)
    \/ \E t \in Tasks : AdapterStoreDelete(t)
    \/ \E t \in Tasks : AdapterStoreAdd(t)
    \/ \E t \in Tasks : AdapterRetrieveCall(t, limit)
    \/ \E t \in Tasks : AdapterExistsCall(t, limit)
    \/ \E t \in Tasks : AdapterDeleteCall(t, limit)
    \/ \E t \in Tasks : AdapterUpdateCall(t, limit)

----------------------------------------------------------------------------
(* SecurityAudit.query and SecurityAudit.clearOldEntries *)

\* the limit of a query that supplies none
defaultLimit == 100

\* an optional parameter: supplied with a value, or left out
Some(v) == [given |-> TRUE, v |-> v]
None == [given |-> FALSE, v |-> 0]

\* the callback of filter in query; an absent eventType or result is ""
QueryFilter(entry, params) ==
    /\ ~(params.eventType # "" /\ entry.eventType # params.eventType)
    /\ ~(params.result # "" /\ entry.result # params.result)
    /\ ~(params.after.given /\ entry.timestamp <= params.after.v)
    /\ ~(params.before.given /\ entry.timestamp >= params.before.v)

\* params.limit || 100
LimitOr(params) ==
    IF params.limit.given /\ params.limit.v # 0 THEN params.limit.v ELSE defaultLimit

\* query from its read of the log to its result: filter, slice, sort; a null
\* element makes the filter throw and the catch returns []
query(params, read) ==
    LET allEntries == getAuditLog(read)
        filtered == SelectSeq(allEntries.items, LAMBDA e : QueryFilter(e, params))
        upTo == IF Len(filtered) < LimitOr(params) THEN Len(filtered)
                ELSE LimitOr(params)
    IN  IF allEntries.nulls THEN <<>>
        ELSE SortNewestFirst(SubSeq(filtered, 1, upTo))

\* parameters of query: none; an event type; a result and a limit of one; a
\* window of the clock; a limit of zero
QueryInputs ==
    { [eventType |-> "", result |-> "", after |-> None, before |-> None,
       limit |-> None],
      [eventType |-> "login_failure", result |-> "", after |-> None,
       before |-> None, limit |-> None],
      [eventType |-> "", result |-> "SUCCESS", after |-> None, before |-> None,
       limit |-> Some(1)],
      [eventType |-> "", result |-> "", after |-> Some(0), before |-> Some(91),
       limit |-> Some(1)],
      [eventType |-> "", result |-> "", after |-> None, before |-> None,
       limit |-> Some(0)] }

\* SecurityAudit.query is called and its read of the log lands
QueryCall(t, limit) ==
    /\ CanStart(t, limit)
    /\ \E params \in QueryInputs, outcome \in ReadOutcomes :
          /\ Return(t, [NewCall("query", <<>>, <<>>, <<>>) EXCEPT !.io = {"audit"}],
                    [params |-> params,
                     entries |-> query(params, getItem(auditStorageKey, outcome))],
                    FALSE)
          /\ faults' = Spend(outcome)
    /\ calls' = calls + 1
    /\ lastLog' = NoLog
    /\ UNCHANGED <<storage, now, ticks, keychain, environment>>

\* arguments of clearOldEntries: one day, the default, and a longer period
ClearOldInputs == {1, retentionDays, retentionDays + 1}

\* what clearOldEntries returns
Removed(removedCount, olderThanDays, allEntries) ==
    [removedCount |-> removedCount, olderThanDays |-> olderThanDays,
     cutoff |-> now - olderThanDays, allEntries |-> allEntries]

\* SecurityAudit.clearOldEntries is called: the cutoff is taken, the read of
\* the log lands and the prune is computed
ClearOldCall(t, limit) ==
    /\ CanStart(t, limit)
    /\ \E olderThanDays \in ClearOldInputs, outcome \in ReadOutcomes :
          LET allEntries == getAuditLog(getItem(auditStorageKey, outcome))
              filteredEntries == FilterNewerThan(allEntries.items, now - olderThanDays)
              removedCount == Len(allEntries.items) - Len(filteredEntries)
              rec == [NewCall("clearOld", <<>>, <<>>, <<>>) EXCEPT
                          !.io = {"audit"}, !.inTry = TRUE,
                          !.todo = filteredEntries,
                          !.result = Removed(removedCount, olderThanDays,
                                             allEntries.items)]
          IN  /\ faults' = Spend(outcome)
              /\ IF allEntries.nulls
                 THEN Return(t, rec, Removed(0, olderThanDays, <<>>), FALSE)
                 ELSE IF removedCount > 0
                 THEN /\ tasks' = [tasks EXCEPT ![t] = [rec EXCEPT !.pc = "clearOldWrite"]]
                      /\ returned' = NoReturn
                      /\ UNCHANGED lastStored
                 ELSE Return(t, rec, rec.result, FALSE)
    /\ calls' = calls + 1
    /\ lastLog' = NoLog
    /\ UNCHANGED <<storage, now, ticks, keychain, environment>>

\* clearOldEntries: setItem of the pruned log lands and log() is entered; a
\* failed write is caught and 0 is returned
ClearOldWrite(t) ==
    /\ tasks[t].pc = "clearOldWrite"
    /\ LET rec == tasks[t]
       IN  \E outcome \in WriteOutcomes :
             /\ faults' = Spend(outcome)
             /\ IF outcome = "throw"
                THEN /\ Return(t, rec, [rec.result EXCEPT !.removedCount = 0], FALSE)
                     /\ UNCHANGED storage
                ELSE /\ storage' = setItem(auditStorageKey, StringifyLog(rec.todo))
                     /\ tasks' = [tasks EXCEPT ![t] =
                           log(rec, "security_config_changed", "SUCCESS",
                               (K_action :> Msg("audit_log_cleanup"))
                                  @@ (<<"e", "n", "t", "r", "i", "e", "s", "R", "e",
                                        "m", "o", "v", "e", "d">>
                                         :> Num(rec.result.removedCount))
                                  @@ (<<"r", "e", "t", "e", "n", "t", "i", "o", "n",
                                        "D", "a", "y", "s">>
                                         :> Num(rec.result.olderThanDays)),
                               TRUE)]
                     /\ returned' = NoReturn
                     /\ UNCHANGED lastStored
    /\ lastLog' = NoLog
    /\ UNCHANGED <<now, calls, ticks, keychain, environment>>

\* callers that write the Audit Log, query it and prune it
NextReports(limit) ==
    \/ Tick
    \/ \E t \in Tasks : LogCall(t)
    \/ \E t \in Tasks : LogRead(t)
    \/ \E t \in Tasks : LogWrite(t)
    \/ \E t \in Tasks : QueryCall(t, limit)
    \/ \E t \in Tasks : ClearOldCall(t, limit)
    \/ \E t \in Tasks : ClearOldWrite(t)

----------------------------------------------------------------------------
(* SecurityAudit.detectSuspiciousActivity *)

\* SECURITY_POLICY.AUDIT.sensitiveOperations
sensitiveOperations ==
    <<"credential_store", "credential_retrieve", "credential_delete",
      "encryption_key_access", "security_config_change">>

\* the number of retrievals in an hour that is still usual
usualRetrievals == 50

\* Date.now() - 60 * 60 * 1000 on the clock of the model, which counts days:
\* the entries strictly after it are those written at the current value of the
\* clock
oneHourAgo == now - 1

\* detectSuspiciousActivity from its read of the log to its result
detectSuspiciousActivity(read) ==
    LET recentEntries ==
            query([eventType |-> "", result |-> "", after |-> Some(oneHourAgo),
                   before |-> None, limit |-> None], read)
        failedAttempts == SelectSeq(recentEntries, LAMBDA e : e.result = "FAILED")
        accessAttempts ==
            SelectSeq(recentEntries, LAMBDA e : e.eventType = "credential_retrieved")
        unauthorizedAttempts ==
            SelectSeq(recentEntries, LAMBDA e : e.eventType = "unauthorized_access")
        failed == Len(failedAttempts) > Len(sensitiveOperations)
        harvesting == Len(accessAttempts) > usualRetrievals
        unauthorized == Len(unauthorizedAttempts) > 0
        issues ==
            (IF failed THEN <<"High number of failed operations">> ELSE <<>>)
            \o (IF harvesting THEN <<"Unusually high credential access frequency">>
                ELSE <<>>)
            \o (IF unauthorized THEN <<"unauthorized access attempts detected">>
                ELSE <<>>)
        recommendations ==
            (IF failed
             THEN <<"Review failed operations and consider implementing rate limiting">>
             ELSE <<>>)
            \o (IF harvesting
                THEN <<"Monitor for potential credential harvesting attempts">>
                ELSE <<>>)
            \o (IF unauthorized
                THEN <<"Investigate unauthorized access attempts immediately">>
                ELSE <<>>)
    IN  [hasIssues |-> Len(issues) > 0, issues |-> issues,
         recommendations |-> recommendations]

\* n entries of one kind written at the time at, with the ids after firstId
EntriesOf(n, firstId, at, eventType, result) ==
    [i \in 1..n |->
        [id |-> firstId + i, timestamp |-> at, eventType |-> eventType,
         result |-> result, data |-> <<>>, sessionId |-> sessionId, version |-> 1]]

\* persisted logs as log() leaves them, newest first: stores, failed logins,
\* retrievals and unauthorized accesses of the current hour, then failed
\* logins of the day before
DetectLogs ==
    { EntriesOf(stores, 0, 1, "credential_stored", "SUCCESS")
        \o EntriesOf(failures, 200, 1, "login_failure", "FAILED")
        \o EntriesOf(retrievals, 300, 1, "credential_retrieved", "SUCCESS")
        \o EntriesOf(intrusions, 400, 1, "unauthorized_access", "WARNING")
        \o EntriesOf(before, 500, 0, "login_failure", "FAILED") :
        stores \in {0, defaultLimit},
        failures \in {0, Len(sensitiveOperations), Len(sensitiveOperations) + 1},
        retrievals \in {0, usualRetrievals, usualRetrievals + 1},
        intrusions \in {0, 1},
        before \in {0, Len(sensitiveOperations) + 1} }

\* a process that finds one of these logs persisted, a day after its oldest
\* entries were written
InitDetect ==
    /\ \E entries \in DetectLogs :
          storage = (auditStorageKey :> StringifyLog(entries))
    /\ keychain = <<>>
    /\ environment = SupportedEnvironment
    /\ now = 1
    /\ tasks = [t \in Tasks |-> IdleTask]
    /\ returned = NoReturn
    /\ calls = 0
    /\ ticks = 0
    /\ faults = 0
    /\ lastLog = NoLog
    /\ lastStored = <<>>

\* SecurityAudit.detectSuspiciousActivity is called and its read of the log
\* lands
DetectCall(t, limit) ==
    /\ CanStart(t, limit)
    /\ \E outcome \in ReadOutcomes :
          /\ Return(t, [NewCall("detect", <<>>, <<>>, <<>>) EXCEPT !.io = {"audit"}],
                    detectSuspiciousActivity(getItem(auditStorageKey, outcome)),
                    FALSE)
          /\ faults' = Spend(outcome)
    /\ calls' = calls + 1
    /\ lastLog' = NoLog
    /\ UNCHANGED <<storage, now, ticks, keychain, environment>>

\* callers that ask for suspicious activity, now and later
NextDetect(limit) ==
    \/ Tick
    \/ \E t \in Tasks : DetectCall(t, limit)

----------------------------------------------------------------------------
(* KeychainManager.list of the Encrypted Local Store *)

\* String.prototype.split with a one-character separator
RECURSIVE split(_, _)
split(str, separator) ==
    LET at == { i \in DOMAIN str : str[i] = separator }
        first == CHOOSE i \in at : \A j \in at : i <= j
    IN  IF at = {} THEN <<str>>
        ELSE <<SubSeq(str, 1, first - 1)>>
                 \o split(SubSeq(str, first + 1, Len(str)), separator)

\* const [, , service, account] = key.split('.') with `|| 'unknown'`: the
\* element n of the parts, 'unknown' when it is missing or empty
PartOrUnknown(parts, n) ==
    IF n <= Len(parts) /\ parts[n] # <<>> THEN parts[n]
    ELSE <<"u", "n", "k", "n", "o", "w", "n">>

\* list from the landing of LocalStorage.allItems to its result; the array is
\* indexed here by the key each item was made from
list(outcome) ==
    LET allItems ==
            [key \in DOMAIN storage |-> getItem(key, outcome).text]
        listed == { key \in DOMAIN allItems :
                      /\ StartsWith(key, Prefix)
                      /\ ~JSONparse(allItems[key]).threw }
    IN  IF outcome = "throw" THEN <<>>
        ELSE [key \in listed |->
                [service |-> PartOrUnknown(split(key, "."), 3),
                 account |-> PartOrUnknown(split(key, "."), 4),
                 type |-> JSONparse(allItems[key]).value.object.type,
                 lastAccessed |-> JSONparse(allItems[key]).value.object.lastAccessed]]

\* arguments of store for list: the key of the other inputs, and a service
\* with a dot in it, as in 'com.pulse.raycast.notion-api'
ListStoreInputs ==
    { <<ValidId, ValidAccount, Credential1>>,
      <<<<"c", ".", "n">>, ValidAccount, Credential1>>,
      <<ValidId, ValidAccount, ShortCredential>> }

\* KeychainManager.list is called and LocalStorage.allItems lands
ListCall(t, limit) ==
    /\ CanStart(t, limit)
    /\ \E outcome \in ReadOutcomes :
          /\ Return(t, [NewCall("list", <<>>, <<>>, <<>>) EXCEPT !.io = {"credential"}],
                    [items |-> list(outcome)], FALSE)
          /\ faults' = Spend(outcome)
    /\ calls' = calls + 1
    /\ lastLog' = NoLog
    /\ UNCHANGED <<storage, now, ticks, keychain, environment>>

\* callers that store credentials and list them
NextList(limit) ==
    \/ Tick
    \/ \E t \in Tasks : StoreOf(t, limit, ListStoreInputs)
    \/ \E t \in Tasks : LogRead(t)
    \/ \E t \in Tasks : LogWrite(t)
    \/ \E t \in Tasks : ListCall(t, limit)

----------------------------------------------------------------------------
(* Callers of the EnvironmentValidator *)

\* a value of 21 characters of the token alphabet
LongToken ==
    <<"A", "b", "c", "d", "e", "f", "g", "h", "i", "j", "0", "1", "2", "3", "4",
      "5", "6", "7", "8", "9", "_">>

\* the environments a process is started in
Environments ==
    { [EnvironmentOf(
          (EnvVar.NODE_ENV :> nodeEnv) @@ (EnvVar.RAYCAST_OWNER_EMAIL :> owner)
             @@ (EnvVar.API_KEY :> apiKey) @@ (EnvVar.PASSWORD :> password)
             @@ (EnvVar.HTTPS :> https)
             @@ (EnvVar.NODE_TLS_REJECT_UNAUTHORIZED :> tls)
             @@ (EnvVar.DEBUG :> debug),
          platform, nodeMajor) EXCEPT !.cwdExpected = cwdExpected] :
        nodeEnv \in { <<>>, V_production,
                      <<"P", "r", "o", "d", "u", "c", "t", "i", "o", "n">>,
                      <<"d", "e", "v">> },
        owner \in { <<>>, <<"o", "@", "x">> },
        apiKey \in { <<>>, <<"k">>, LongToken },
        password \in { <<>>, <<"p", "w">> },
        https \in { <<>>, V_true },
        tls \in { <<>>, <<"0">>, <<"1">> },
        debug \in { <<>>, <<"1">> },
        platform \in { "darwin", "linux" },
        nodeMajor \in { 14, 20 },
        cwdExpected \in BOOLEAN }

\* a process started in one of these environments
InitEnv ==
    /\ environment \in Environments
    /\ storage = <<>>
    /\ keychain = <<>>
    /\ now = 0
    /\ tasks = [t \in Tasks |-> IdleTask]
    /\ returned = NoReturn
    /\ calls = 0
    /\ ticks = 0
    /\ faults = 0
    /\ lastLog = NoLog
    /\ lastStored = <<>>

\* EnvironmentValidator.validate is called
ValidateCall(t, limit) ==
    /\ CanStart(t, limit)
    /\ Return(t, NewCall("validate", <<>>, <<>>, <<>>), validate(environment), FALSE)
    /\ calls' = calls + 1
    /\ lastLog' = NoLog
    /\ UNCHANGED <<storage, now, ticks, faults, keychain, environment>>

\* EnvironmentValidator.getSecurityRequirements is called
RequirementsCall(t, limit) ==
    /\ CanStart(t, limit)
    /\ Return(t, NewCall("getSecurityRequirements", <<>>, <<>>, <<>>),
              getSecurityRequirements(environment), FALSE)
    /\ calls' = calls + 1
    /\ lastLog' = NoLog
    /\ UNCHANGED <<storage, now, ticks, faults, keychain, environment>>

\* callers that validate the environment and ask for the checklist
NextEnv(limit) ==
    \/ \E t \in Tasks : ValidateCall(t, limit)
    \/ \E t \in Tasks : RequirementsCall(t, limit)

----------------------------------------------------------------------------
(* Callers of the Cipher Engine *)

Plaintexts == { <<>>, <<"a">>, Credential1, <<"p", LoneSurrogate, "w">> }
Passwords == { "", "pw1", "pw2" }
RandomValues == { 1, 2 }

\* what may happen to an envelope between encrypt and decrypt
Tamperings == { "none", "data", "iv", "salt", "algorithm" }

Tamper(encryptedData, tampering) ==
    CASE tampering = "data" -> [encryptedData EXCEPT !.data.password = "other bytes"]
      [] tampering = "iv" -> [encryptedData EXCEPT !.iv = @ + 1]
      [] tampering = "salt" -> [encryptedData EXCEPT !.salt = @ + 1]
      [] tampering = "algorithm" -> [encryptedData EXCEPT !.algorithm = "aes-128-cbc"]
      [] OTHER -> encryptedData

\* EncryptionUtils.encrypt is called; randomBytes yields salt and iv
EncryptCall(t, limit) ==
    /\ CanStart(t, limit)
    /\ \E plaintext \in Plaintexts, password \in Passwords,
          salt \in RandomValues, iv \in RandomValues :
          LET encryptionResult == encrypt(plaintext, password, salt, iv)
          IN  Return(t, NewCall("encrypt", <<>>, <<>>, <<>>),
                     [plaintext |-> plaintext, password |-> password,
                      success |-> encryptionResult.success,
                      encrypted |-> encryptionResult.encrypted],
                     FALSE)
    /\ calls' = calls + 1
    /\ lastLog' = NoLog
    /\ UNCHANGED <<storage, now, ticks, faults, keychain, environment>>

\* EncryptionUtils.decrypt is called with an envelope that encrypt made of
\* plaintext under sealedWith, as it is or tampered with
DecryptCall(t, limit) ==
    /\ CanStart(t, limit)
    /\ \E plaintext \in Plaintexts, sealedWith \in Passwords,
          salt \in RandomValues, iv \in RandomValues,
          tampering \in Tamperings, password \in Passwords,
          final \in {"not reached", "plaintext", "bad decrypt", "padded"} :
          LET encryptionResult == encrypt(plaintext, sealedWith, salt, iv)
              encryptedData == Tamper(encryptionResult.encrypted, tampering)
              decryptionResult == decrypt(encryptedData, password, final)
          IN  /\ encryptionResult.success
              /\ final \in FinalOutcomes(encryptedData, password)
              /\ Return(t, NewCall("decrypt", <<>>, <<>>, <<>>),
                        [plaintext |-> plaintext, sealedWith |-> sealedWith,
                         tampering |-> tampering, password |-> password,
                         success |-> decryptionResult.success,
                         decrypted |-> decryptionResult.decrypted],
                        FALSE)
    /\ calls' = calls + 1
    /\ lastLog' = NoLog
    /\ UNCHANGED <<storage, now, ticks, faults, keychain, environment>>

\* the strings secureCompare is given: all strings of up to MaxCompareLen
\* characters over two letters
MaxCompareLen == 3
CompareStrings ==
    UNION { [1..n -> {"a", "A"}] : n \in 0..MaxCompareLen }

\* EncryptionUtils.secureCompare is called
SecureCompareCall(t, limit) ==
    /\ CanStart(t, limit)
    /\ \E a \in CompareStrings, b \in CompareStrings :
          LET compared == secureCompare(a, b)
          IN  Return(t, NewCall("secureCompare", <<>>, <<>>, <<>>),
                     [a |-> a, b |-> b, equal |-> compared.equal,
                      iterations |-> compared.iterations],
                     FALSE)
    /\ calls' = calls + 1
    /\ lastLog' = NoLog
    /\ UNCHANGED <<storage, now, ticks, faults, keychain, environment>>

\* callers of the Cipher Engine
NextCipher(limit) ==
    \/ \E t \in Tasks : EncryptCall(t, limit)
    \/ \E t \in Tasks : DecryptCall(t, limit)
    \/ \E t \in Tasks : SecureCompareCall(t, limit)

----------------------------------------------------------------------------
(* Callers of the Encrypted Local Store whose identifiers hold dots *)

\* two valid pairs whose service and account are split at different dots
DottedKeyInputs ==
    { <<<<"c">>, <<"n", ".", "a">>>>, <<<<"c", ".", "n">>, <<"a">>>> }

DottedStoreInputs ==
    { <<<<"c">>, <<"n", ".", "a">>, Credential1>>,
      <<<<"c", ".", "n">>, <<"a">>, Credential2>> }

NextKeys(limit) ==
    \/ \E t \in Tasks : StoreOf(t, limit, DottedStoreInputs)
    \/ \E t \in Tasks : RetrieveOf(t, limit, DottedKeyInputs)
    \/ \E t \in Tasks : RetrieveSet(t)
    \/ \E t \in Tasks : DeleteOf(t, limit, DottedKeyInputs)
    \/ \E t \in Tasks : DeleteRemove(t)
    \/ \E t \in Tasks : LogRead(t)
    \/ \E t \in Tasks : LogWrite(t)

\* callers that use the Audit Log directly
NextAudit ==
    \/ Tick
    \/ \E t \in Tasks : LogCall(t)
    \/ \E t \in Tasks : LogRead(t)
    \/ \E t \in Tasks : LogWrite(t)

\* callers that use the Encrypted Local Store (which writes the Audit Log)
NextStore(limit) ==
    \/ \E t \in Tasks : StoreCall(t, limit)
    \/ \E t \in Tasks : RetrieveCall(t, limit)
    \/ \E t \in Tasks : RetrieveSet(t)
    \/ \E t \in Tasks : DeleteCall(t, limit)
    \/ \E t \in Tasks : DeleteRemove(t)
    \/ \E t \in Tasks : ClearCall(t, limit)
    \/ \E t \in Tasks : ClearRemove(t)
    \/ \E t \in Tasks : LogRead(t)
    \/ \E t \in Tasks : LogWrite(t)

Next == NextAudit \/ NextStore(MaxCalls)

\* the whole subsystem
Spec == Init /\ [][Next]_vars

\* the Audit Log under its direct callers; LocalStorage never fails
SpecAudit == Init /\ [][NextAudit]_vars

\* the same, and LocalStorage may fail or return garbage MaxFaults times
SpecAuditFault == InitFault /\ [][NextAudit]_vars

\* the Encrypted Local Store and the audit entries it writes; LocalStorage
\* never fails
SpecStore == Init /\ [][NextStore(MaxCalls)]_vars

\* the same, with room for a retrieve that overlaps a store between a store
\* and a retrieve
SpecStoreRace == Init /\ [][NextStore(MaxRaceCalls)]_vars

\* the Encrypted Local Store when LocalStorage may fail or return garbage
\* MaxFaults times
SpecStoreFault == InitFault /\ [][NextStore(MaxFaultCalls)]_vars

\* the Platform Secret Store Adapter over a credential manager whose commands
\* fail only for the reasons the commands define
SpecAdapter == Init /\ [][NextAdapter(MaxCalls)]_vars

\* the same, and a command may be denied MaxFaults times
SpecAdapterFault == InitFault /\ [][NextAdapter(MaxCalls)]_vars

\* the Audit Log with its queries and its manual pruning
SpecReports == Init /\ [][NextReports(MaxLogCalls)]_vars

\* the detection of suspicious activity over a persisted log
SpecDetect == InitDetect /\ [][NextDetect(MaxCalls)]_vars

\* the Encrypted Local Store with its listing
SpecList == Init /\ [][NextList(MaxCalls)]_vars

\* the validation of the environment of the process
SpecEnv == InitEnv /\ [][NextEnv(MaxCalls)]_vars

\* the Cipher Engine on its own
SpecCipher == Init /\ [][NextCipher(MaxCalls)]_vars

\* the Encrypted Local Store under identifiers that hold dots
SpecKeys == Init /\ [][NextKeys(MaxCalls)]_vars

----------------------------------------------------------------------------
(* Properties *)

\* the elements of a sequence of audit entries
Entries(seq) == { seq[i] : i \in 1..Len(seq) }

\* an entry the age filter of a write at time `at` removes
Expired(e, at) == e.timestamp <= at - retentionDays

\* every character string a reader of LocalStorage finds in the stored values
PersistedStrings ==
    UNION { LET text == storage[k]
            IN  IF text.shape = "object"
                THEN { Visible(text.object.encrypted.data) }
                ELSE UNION { { e.data[key].v : key \in { x \in DOMAIN e.data :
                                                            e.data[x].t = "str" } }
                             : e \in Entries(text.items) }
            : k \in DOMAIN storage }

\* C1: no value held in LocalStorage, credential entry or audit log blob,
\* contains the plaintext of a credential passed to store()
C1_NoPlaintextPersisted ==
    \A c \in Credentials : \A str \in PersistedStrings : ~Includes(str, c)

\* C1 witness: a credential is persisted as an envelope that opens to
\* Credential1, and the audit entry of the store is persisted
C1_Witness ==
    /\ \E k \in DOMAIN storage :
          /\ storage[k].shape = "object"
          /\ decrypt(storage[k].object.encrypted, masterPassword, "plaintext").decrypted
                = Credential1
    /\ \E e \in Entries(PersistedLog) :
          e.eventType = "credential_stored" /\ e.result = "SUCCESS"

\* C2: a retrieve that follows a successful store of the same key, with no
\* store, delete or clearAll on that key since, returns success and the
\* credential that was stored
C2_RoundTrip ==
    (returned.op = "retrieve" /\ returned.expectHeld
        /\ returned.expect.credential # <<>>)
        => /\ returned.result.success
           /\ returned.result.credential = returned.expect.credential

\* C3: after every write of log() the persisted log has at most maxEntries
\* entries, newest first; the entries the cap drops are the oldest, and as
\* many as the cap allows are kept
C3_Cap ==
    /\ Len(PersistedLog) <= maxEntries
    /\ \A i, j \in 1..Len(PersistedLog) :
          i < j => PersistedLog[i].timestamp >= PersistedLog[j].timestamp
    /\ lastLog.cid # 0 =>
          LET input == Entries(lastLog.base) \cup {lastLog.entry}
              kept == Entries(lastLog.output)
              fresh == { e \in input : ~Expired(e, lastLog.at) }
          IN  /\ PersistedLog = lastLog.output
              /\ kept \subseteq input
              /\ \A d \in fresh \ kept : \A e \in kept : d.timestamp <= e.timestamp
              /\ Cardinality(kept) = Len(lastLog.output)
              /\ Cardinality(kept) =
                    IF Cardinality(fresh) < maxEntries THEN Cardinality(fresh)
                    ELSE maxEntries

\* C3 witness: a write into a full log dropped an entry that had not expired
C3_Witness ==
    /\ lastLog.cid # 0
    /\ Len(lastLog.base) = maxEntries
    /\ Len(lastLog.output) = maxEntries
    /\ \E d \in Entries(lastLog.base) :
          ~Expired(d, lastLog.at) /\ d \notin Entries(lastLog.output)

\* C4: after every write of log() the persisted log has no entry older than
\* retentionDays before the write; an entry that aged past the window is
\* removed by the write
C4_Retention ==
    lastLog.cid # 0 =>
        /\ \A e \in Entries(PersistedLog) :
              ~(e.timestamp < lastLog.at - retentionDays)
        /\ \A e \in Entries(lastLog.base) :
              e.timestamp < lastLog.at - retentionDays => e \notin Entries(PersistedLog)

\* C4 witness: the log read by the write held an entry older than the window
C4_Witness ==
    /\ lastLog.cid # 0
    /\ \E e \in Entries(lastLog.base) : e.timestamp < lastLog.at - retentionDays

\* C5: every entry persisted when log() read the log is still there,
\* unchanged, after its write, unless it is outside the retention window or
\* at least maxEntries other entries are as new as it is
C5_AppendOnly ==
    lastLog.cid # 0 =>
        \A e \in Entries(lastLog.atRead) :
            \/ e \in Entries(lastLog.output)
            \/ Expired(e, lastLog.at)
            \/ Cardinality({ o \in (Entries(lastLog.atRead) \cup {lastLog.entry}) \ {e} :
                                o.timestamp >= e.timestamp }) >= maxEntries

\* the primary outcomes on which store, retrieve, delete and clearAll succeed
SuccessOutcomes == {"stored", "retrieved", "deleted", "cleared"}

\* C6: no call raises because of its audit write, and what store, retrieve,
\* delete and clearAll return is decided by the primary operation alone,
\* whether the audit write landed or failed
C6_AuditCannotFail ==
    returned.op # "none" =>
        /\ ~returned.threw
        /\ returned.result.success <=> returned.primary \in SuccessOutcomes

\* C6 witness: a call whose audit write failed returned success
C6_Witness ==
    /\ returned.op \in {"store", "retrieve", "delete", "clearAll"}
    /\ returned.auditFailed
    /\ returned.result.success

\* C7: every store, retrieve or delete that returns a failure has written an
\* audit entry with result FAILED
C7_FailuresMirrored ==
    (returned.op \in {"store", "retrieve", "delete"} /\ ~returned.result.success)
        => returned.logged = "FAILED"

\* the data keys of the entry just written that sanitizeLogData treats as
\* sensitive
SensitiveKeys == { key \in DOMAIN lastLog.raw : IsSensitiveKey(key) }

\* C8: in the entry log() persists, every sensitive data key holds '***'
\* followed by the last 4 characters of a non-empty string value, or '***'
\* alone, and the persisted value does not contain the original value
C8_Redaction ==
    (lastLog.cid # 0 /\ lastLog.entry \in Entries(PersistedLog)) =>
        \A key \in SensitiveKeys :
            LET original == lastLog.raw[key]
                persisted == lastLog.entry.data[key]
            IN  /\ IF original.t = "str" /\ Len(original.v) > 0
                   THEN /\ persisted = Str(Stars \o SliceLast(original.v, maskTail))
                        /\ ~Includes(persisted.v, original.v)
                   ELSE persisted = Str(Stars)

\* C9: a write of log() keeps no entry that was written between its read and
\* its write (the last writer wins), and records its own entry whenever the
\* log it read leaves room under the cap
C9_LastWriterWins ==
    lastLog.cid # 0 =>
        /\ \A e \in Entries(lastLog.before) \ Entries(lastLog.atRead) :
              e \notin Entries(PersistedLog)
        /\ Len(lastLog.base) < maxEntries => lastLog.entry \in Entries(PersistedLog)

\* C9 witness: two calls read the same log; the write of the second removed
\* the entry the first had written
C9_Witness ==
    /\ lastLog.cid # 0
    /\ \E e \in Entries(lastLog.before) \ Entries(lastLog.atRead) :
          /\ ~Expired(e, lastLog.at)
          /\ Len(lastLog.before) < maxEntries
          /\ e \notin Entries(PersistedLog)
          /\ lastLog.entry \in Entries(PersistedLog)

\* the safe-identifier pattern: lowercase alphanumerics and . _ -, between 1
\* and idMaxLength characters
SafeIdentifier(id) ==
    /\ Len(id) \in 1..idMaxLength
    /\ Range(id) \subseteq Range(LowerLetters) \cup Range(Digits) \cup {".", "_", "-"}

\* the rules a call of store violates, in the order store reports them
ViolatedRules(service, account, credential) ==
    (IF SafeIdentifier(service) THEN <<>> ELSE <<"Invalid service name">>)
    \o (IF SafeIdentifier(account) THEN <<>> ELSE <<"Invalid account name">>)
    \o (IF Len(credential) >= minCredentialLength THEN <<>>
        ELSE <<"Credential must be at least 8 characters">>)

\* C10 as stated: a store that violates a rule fails with one 'Validation
\* failed' error listing every violated rule, and makes no persistence call
C10_NoPersistenceCall ==
    (/\ returned.op = "store"
     /\ ViolatedRules(returned.service, returned.account, returned.credential) # <<>>)
        => /\ returned.result =
                 Fail("Validation failed",
                      ViolatedRules(returned.service, returned.account,
                                    returned.credential), "")
           /\ returned.io = {}

\* C10 amended: a store that violates a rule fails with one 'Validation
\* failed' error listing every violated rule, and makes no persistence call
\* on a credential entry: the audit log is the only key it reads or writes
C10_ValidationFailure ==
    (/\ returned.op = "store"
     /\ ViolatedRules(returned.service, returned.account, returned.credential) # <<>>)
        => /\ returned.result =
                 Fail("Validation failed",
                      ViolatedRules(returned.service, returned.account,
                                    returned.credential), "")
           /\ returned.io \subseteq {"audit"}

\* C10 witness: a store that violated all three rules has returned
C10_Witness ==
    /\ returned.op = "store"
    /\ Len(returned.result.errors) = 3
    /\ returned.io = {"audit"}

\* C11: a delete of a key that holds no credential fails with 'Credential
\* not found' and writes nothing; a delete of a stored credential succeeds,
\* and a retrieve that follows it, with no store on that key since, fails
\* with 'Credential not found'
C11_Delete ==
    /\ (returned.op = "delete" /\ returned.primary = "notFound")
          => /\ returned.result = Fail("Credential not found", <<>>, "")
             /\ returned.io = {"credential"}
    /\ (returned.op = "delete" /\ returned.primary = "deleted")
          => returned.result.success
    /\ (returned.op = "retrieve" /\ returned.expectHeld
           /\ returned.expect.credential = <<>>)
          => /\ ~returned.result.success
             /\ returned.result.error = "Credential not found"

\* the allow-list of characters that are safe on a command line
AllowedChars == Range(LowerLetters) \cup Range(UpperLetters) \cup Range(Digits)
                    \cup {".", "_", "-"}

\* the values of a call are non-empty and pass through the shell unchanged
PlainValues(values) ==
    \A v \in values : v # <<>> /\ Range(v) \subseteq AllowedChars

\* C12: a delete of the adapter with a non-empty service and account, whose
\* command is not failed for another reason, returns success whether or not
\* the entry exists, also directly after a delete of the same key; and
\* exists() that follows a returned delete, with no store of the key since,
\* is false
C12_DeleteIdempotent ==
    /\ (returned.op = "adapter.delete" /\ returned.primary = "run"
           /\ PlainValues({returned.service, returned.account}))
          => returned.result.success
    /\ (returned.op = "adapter.exists" /\ returned.expectHeld
           /\ returned.expect.credential = <<>>)
          => ~returned.result.success

\* a delete that directly follows a returned delete of the same key succeeds
C12_Witness ==
    /\ returned.op = "adapter.delete"
    /\ returned.expectHeld
    /\ returned.expect.credential = <<>>
    /\ returned.result.success
    /\ calls = 3

\* C13: a store of the adapter with non-empty arguments never fails because
\* an entry of its key exists already, and a retrieve that follows a
\* successful store, with no other store or delete of the key since, returns
\* the secret of that store
C13_Overwrite ==
    /\ (returned.op = "adapter.store"
           /\ returned.service # <<>> /\ returned.account # <<>>
           /\ returned.credential # <<>>)
          => returned.primary # "exists"
    /\ (returned.op = "adapter.retrieve" /\ returned.expectHeld
           /\ returned.expect.credential # <<>> /\ returned.primary = "present")
          => /\ returned.result.success
             /\ returned.result.credential = returned.expect.credential

\* C14: a retrieve of the adapter for which no entry exists fails with the
\* error 'Credential not found', and a retrieve whose command fails for another
\* reason fails with an error other than that one
C14_NotFoundRecognizable ==
    /\ (returned.op = "adapter.retrieve" /\ returned.primary = "absent"
           /\ PlainValues({returned.service, returned.account}))
          => /\ ~returned.result.success
             /\ returned.result.error = "Credential not found"
    /\ (returned.op = "adapter.retrieve" /\ returned.primary = "denied")
          => /\ ~returned.result.success
             /\ returned.result.error # "Credential not found"

\* C15: an update of the adapter whose delete command fails for a reason other
\* than not-found issues no add command and returns the failure of the delete;
\* an update with plain values whose delete succeeds, or finds no entry, runs
\* the add command of store and returns the result of store
C15_UpdateDeleteThenStore ==
    /\ (returned.op = "adapter.update" /\ "deleteDenied" \in returned.io)
          => /\ "add" \notin returned.io
             /\ returned.result =
                   Fail("Failed to delete credential", <<>>, DeniedMessage)
    /\ (returned.op = "adapter.update" /\ "deleteDenied" \notin returned.io
           /\ PlainValues({returned.service, returned.account, returned.credential}))
          => /\ "add" \in returned.io
             /\ returned.result.success <=> returned.primary = "stored"
             /\ returned.result.success
                   => keychain[AdapterKey(returned.service, returned.account)]
                          = returned.credential

\* an update of an existing entry returned the failure of its denied delete,
\* and the entry is still there
C15_Witness ==
    /\ returned.op = "adapter.update"
    /\ "deleteDenied" \in returned.io
    /\ ~returned.result.success
    /\ AdapterKey(returned.service, returned.account) \in DOMAIN keychain

\* a value has a character outside the allow-list
Unsafe(values) == \E v \in values : ~(Range(v) \subseteq AllowedChars)

AdapterOps ==
    {"adapter.store", "adapter.retrieve", "adapter.exists", "adapter.delete",
     "adapter.update"}

\* C16: a call of the adapter with a service, account or secret that has a
\* character outside the allow-list issues no add, find or delete command,
\* neither before it returns nor while it is in flight
C16_SubprocessBoundary ==
    /\ (returned.op \in AdapterOps
           /\ Unsafe({returned.service, returned.account, returned.credential}))
          => returned.io = {}
    /\ \A t \in Tasks :
          (tasks[t].op \in AdapterOps
             /\ Unsafe({tasks[t].service, tasks[t].account, tasks[t].credential}))
            => tasks[t].io = {}

\* the persisted entries that satisfy every filter a query supplies
Satisfying(params) ==
    { e \in Entries(PersistedLog) :
        /\ params.eventType # "" => e.eventType = params.eventType
        /\ params.result # "" => e.result = params.result
        /\ params.after.given => e.timestamp > params.after.v
        /\ params.before.given => e.timestamp < params.before.v }

\* entries is, newest first and without repetition, the n newest entries of
\* the set wanted (all of them when there are fewer)
NewestOf(entries, wanted, n) ==
    /\ Entries(entries) \subseteq wanted
    /\ Cardinality(Entries(entries)) = Len(entries)
    /\ Len(entries) = IF Cardinality(wanted) < n THEN Cardinality(wanted) ELSE n
    /\ \A i, j \in DOMAIN entries :
          i < j => entries[i].timestamp >= entries[j].timestamp
    /\ \A e \in wanted \ Entries(entries), o \in Entries(entries) :
          e.timestamp <= o.timestamp

\* C17: a query returns exactly the persisted entries that satisfy all the
\* filters it supplies, newest first, truncated to the limit newest of them,
\* where the limit is 100 when none is supplied
C17_Query ==
    returned.op = "query" =>
        NewestOf(returned.result.entries, Satisfying(returned.result.params),
                 IF returned.result.params.limit.given
                 THEN returned.result.params.limit.v ELSE 100)

\* the entries a returned clearOldEntries read, in the order read, that are
\* newer than its cutoff
NewerRead ==
    SelectSeq(returned.result.allEntries,
              LAMBDA e : e.timestamp > returned.result.cutoff)

\* no other call wrote the log between the prune of the returned
\* clearOldEntries and the write of its cleanup event
PruneUndisturbed ==
    /\ lastLog.cid = returned.cid
    /\ lastLog.atRead = NewerRead
    /\ lastLog.before = NewerRead

\* what a returned clearOldEntries counted and left behind, apart from the
\* entries it read that are newer than its cutoff
ClearedOld ==
    LET result == returned.result
        older == { i \in DOMAIN result.allEntries :
                     result.allEntries[i].timestamp <= result.cutoff }
    IN  /\ result.removedCount = Cardinality(older)
        /\ result.removedCount = 0 => PersistedLog = result.allEntries
        /\ (result.removedCount > 0 /\ PruneUndisturbed)
              => /\ \A i \in older :
                       result.allEntries[i] \notin Entries(PersistedLog)
                 /\ \E e \in Entries(PersistedLog) :
                       /\ e.id = returned.cid
                       /\ e.eventType = "security_config_changed"
                       /\ e.data[K_action] = Msg("audit_log_cleanup")
                       /\ e \notin Entries(result.allEntries)

LastHour == { e \in Entries(PersistedLog) : e.timestamp > now - 1 }

\* the flags the entries of the last hour raise: more FAILED entries than
\* there are sensitive operation names, more than 50 retrievals, an
\* unauthorized access
FlagsRaised ==
    { flag \in {"failed", "harvesting", "unauthorized"} :
        \/ /\ flag = "failed"
           /\ Cardinality({ e \in LastHour : e.result = "FAILED" }) > 5
        \/ /\ flag = "harvesting"
           /\ Cardinality({ e \in LastHour : e.eventType = "credential_retrieved" })
                 > 50
        \/ /\ flag = "unauthorized"
           /\ \E e \in LastHour : e.eventType = "unauthorized_access" }

\* C19: detectSuspiciousActivity raises one flag for each of the three
\* conditions the entries of the last hour meet; each flag adds exactly one
\* issue and one recommendation, and hasIssues is true exactly when a flag is
\* raised
C19_Detect ==
    returned.op = "detect" =>
        /\ Len(returned.result.issues) = Cardinality(FlagsRaised)
        /\ Len(returned.result.recommendations) = Cardinality(FlagsRaised)
        /\ returned.result.hasIssues <=> FlagsRaised # {}
        /\ "unauthorized" \in FlagsRaised
              <=> \E i \in DOMAIN returned.result.issues :
                     returned.result.issues[i] = "unauthorized access attempts detected"

\* C20: list returns exactly one item for each well-formed entry under the
\* credential prefix and none for any other key; the service and the account
\* of an item are the pair under which the credential of its key was stored;
\* an item carries nothing of the encrypted credential
C20_List ==
    returned.op = "list" =>
        LET items == returned.result.items
        IN  /\ DOMAIN items = { key \in DOMAIN storage :
                                  StartsWith(key, Prefix) /\ storage[key].wellFormed }
            /\ \A key \in DOMAIN items :
                  /\ DOMAIN items[key] = {"service", "account", "type", "lastAccessed"}
                  /\ \A input \in ListStoreInputs :
                        generateStorageKey(input[1], input[2]) = key
                          => /\ items[key].service = input[1]
                             /\ items[key].account = input[2]

\* C21: when clearAll returns success no key under the credential prefix is
\* left, other than the key of a store that landed after clearAll was called;
\* no key other than these and the key of the audit log is in storage, and the
\* audit log holds, besides the entry of clearAll, only entries that clearAll
\* read from it
C21_ClearAll ==
    (returned.op = "clearAll" /\ returned.result.success)
        => /\ \A key \in DOMAIN storage :
                 StartsWith(key, Prefix)
                    => /\ key \in DOMAIN lastStored
                       /\ lastStored[key].cid > returned.cid
                       /\ lastStored[key].credential # <<>>
           /\ DOMAIN storage \subseteq
                 { key \in DOMAIN storage : StartsWith(key, Prefix) }
                    \cup {auditStorageKey}
           /\ lastLog.cid = returned.cid
                 => /\ lastLog.entry.data[K_action] = Msg("clear_all_credentials")
                    /\ Entries(PersistedLog) \ {lastLog.entry}
                          \subseteq Entries(lastLog.atRead)

\* a variable is set when the process has a non-empty value for it
IsSet(e, name) == e.env[name] # <<>>

\* the five conditions under which an environment is compliant
Compliant(e) ==
    /\ \A i \in DOMAIN REQUIRED_ENV_VARS : IsSet(e, REQUIRED_ENV_VARS[i])
    /\ \A i \in DOMAIN FORBIDDEN_ENV_VARS : ~IsSet(e, FORBIDDEN_ENV_VARS[i])
    /\ e.platform = "darwin"
    /\ detectEnvironment(e) = "production" => isHttpsEnabled(e)
    /\ e.env[EnvVar.NODE_TLS_REJECT_UNAUTHORIZED] # <<"0">>

\* C22: validate reports isValid exactly when it collected no error, which is
\* exactly when the required variables are set, no forbidden variable is set,
\* the platform is the supported one, HTTPS is enabled in production and TLS
\* validation is not disabled; warnings do not change isValid; and each
\* forbidden variable that is set yields exactly one policy violation naming it
C22_Validate ==
    returned.op = "validate"
        => LET result == returned.result
           IN  /\ result.isValid <=> Len(result.errors) = 0
               /\ result.isValid <=> Compliant(environment)
               /\ \A i \in DOMAIN FORBIDDEN_ENV_VARS :
                     Cardinality({ j \in DOMAIN result.errors :
                                     /\ result.errors[j].code = "POLICY_VIOLATION"
                                     /\ result.errors[j].subject
                                           = FORBIDDEN_ENV_VARS[i] })
                        = IF IsSet(environment, FORBIDDEN_ENV_VARS[i]) THEN 1 ELSE 0

\* validate returned for a compliant environment with warnings, or for an
\* environment whose only fault is that TLS validation is disabled
C22_Witness ==
    /\ returned.op = "validate"
    /\ \/ /\ returned.result.isValid
          /\ Len(returned.result.warnings) > 1
       \/ /\ ~returned.result.isValid
          /\ Len(returned.result.errors) = 1
          /\ returned.result.errors[1].code = "INSECURE_ENVIRONMENT"
          /\ environment.env[EnvVar.NODE_TLS_REJECT_UNAUTHORIZED] = <<"0">>

\* C30: the checklist of getSecurityRequirements agrees with validate (the
\* environment is valid exactly when every required requirement is met), and
\* each met flag reflects its own check only: the platform, the required
\* variables whatever the platform, the forbidden variables, HTTPS in
\* production, the TLS setting and the security command
C30_Requirements ==
    returned.op = "getSecurityRequirements"
        => LET requirements == returned.result
               e == environment
           IN  /\ validate(e).isValid
                     <=> \A i \in DOMAIN requirements :
                            requirements[i].required => requirements[i].met
               /\ requirements[1].met <=> e.platform = "darwin"
               /\ requirements[2].met
                     <=> \A i \in DOMAIN REQUIRED_ENV_VARS :
                            IsSet(e, REQUIRED_ENV_VARS[i])
               /\ requirements[3].met
                     <=> \A i \in DOMAIN FORBIDDEN_ENV_VARS :
                            ~IsSet(e, FORBIDDEN_ENV_VARS[i])
               /\ requirements[4].met
                     <=> (detectEnvironment(e) = "production" => isHttpsEnabled(e))
               /\ requirements[5].met
                     <=> e.env[EnvVar.NODE_TLS_REJECT_UNAUTHORIZED] # <<"0">>
               /\ requirements[6].met <=> e.platform = "darwin"

\* C23: encrypt of a non-empty plaintext under a non-empty password succeeds,
\* and decrypt of the envelope it made, with the same password, succeeds and
\* returns exactly that plaintext
C23_CipherRoundTrip ==
    /\ (returned.op = "encrypt" /\ returned.result.plaintext # <<>>
           /\ returned.result.password # "")
          => returned.result.success
    /\ (returned.op = "decrypt" /\ returned.result.tampering = "none"
           /\ returned.result.password = returned.result.sealedWith)
          => /\ returned.result.success
             /\ returned.result.decrypted = returned.result.plaintext

\* C24: decrypt with a password other than the one the envelope was made
\* with, or of an envelope whose data, iv or salt was changed, returns a
\* failure
C24_DecryptRejects ==
    (returned.op = "decrypt"
        /\ \/ returned.result.password # returned.result.sealedWith
           \/ returned.result.tampering \in {"data", "iv", "salt"})
       => ~returned.result.success

\* C25: secureCompare returns true exactly when the two strings are the same,
\* the empty strings included; when the lengths are equal its loop runs once
\* for every position, wherever the first difference is
C25_SecureCompare ==
    returned.op = "secureCompare"
        => /\ returned.result.equal <=> returned.result.a = returned.result.b
           /\ Len(returned.result.a) # Len(returned.result.b)
                 => ~returned.result.equal
           /\ Len(returned.result.a) = Len(returned.result.b)
                 => returned.result.iterations = Len(returned.result.a)

\* two strings of the same length that differ in the first position and
\* agree in the last were compared
C25_Witness ==
    /\ returned.op = "secureCompare"
    /\ Len(returned.result.a) = MaxCompareLen
    /\ Len(returned.result.b) = MaxCompareLen
    /\ returned.result.a[1] # returned.result.b[1]
    /\ returned.result.a[MaxCompareLen] = returned.result.b[MaxCompareLen]
    /\ ~returned.result.equal

\* C26: two different valid pairs have different storage keys, so that the
\* credential a retrieve returns for a pair is one that was stored for that
\* pair
C26_KeysInjective ==
    (returned.op = "retrieve" /\ returned.result.success
        /\ returned.expect # NoStore)
       => /\ returned.expect.service = returned.service
          /\ returned.expect.account = returned.account

\* C27: while the last write to a key is a delete that returned success, the
\* key is absent from storage, whatever a retrieve of that key that was in
\* progress does afterwards
C27_DeletedStaysAbsent ==
    \A key \in DOMAIN lastStored :
        (lastStored[key].returned /\ lastStored[key].credential = <<>>)
           => key \notin DOMAIN storage

\* C28: while the last write to a key is a store that returned success, the
\* envelope persisted under the key opens to the credential of that store,
\* whatever a retrieve that read the entry before the store wrote does
\* afterwards
C28_StoredStaysCurrent ==
    \A key \in DOMAIN lastStored :
        (lastStored[key].returned /\ lastStored[key].credential # <<>>)
           => /\ key \in DOMAIN storage
              /\ storage[key].shape = "object"
              /\ decrypt(storage[key].object.encrypted, masterPassword,
                         "plaintext").decrypted = lastStored[key].credential

\* C29: when a store or an update of the adapter returns a failure, and no
\* other call has changed the key since the call began, the secret that was
\* stored for the key before the call is still in the credential manager
C29_FailureLeavesSecret ==
    (returned.op \in {"adapter.store", "adapter.update"}
        /\ ~returned.result.success
        /\ returned.expect.credential # <<>>
        /\ LastStoredAt(AdapterKey(returned.service, returned.account)).cid
              \in {returned.expect.cid, returned.cid})
       => AdapterKey(returned.service, returned.account) \in DOMAIN keychain

====
